---- MODULE Spec2Model ----
(***************************************************************************)
(* A model of lib/document.py (MyPaint): the Document class, its undo/redo *)
(* command stack, the setters' coalescing policy, the flush_updates        *)
(* barrier and the canvas_area_modified damage events.                     *)
(*                                                                         *)
(* The document is held in the variables below.  Every method of Document  *)
(* is an operator from a document record to a document record, so that a   *)
(* method calling other methods is the composition of their operators, in  *)
(* the order of the calls in the code; an action applies one public method *)
(* to the current document.                                                *)
(***************************************************************************)
EXTENDS Integers, Sequences, FiniteSets, TLC

\* ---------------------------------------------------------------- bounds

\* Number of Command objects constructed in one run (caps the id counter).
MaxCmds == 2
\* The most steps a session of entry-point calls is followed for.
MaxCalls == 3

\* ------------------------------------------------------------- constants

DEFAULT_RESOLUTION == 72
N == 64
\* The "None" of an optional integer argument (update_frame's defaults).
NoArg == -1
\* Layer modes: the default one and layer.PASS_THROUGH_MODE.
DEFAULT_MODE == 0
PASS_THROUGH_MODE == 1

\* The root layer stack itself (self.layer_stack), as a layer identity.
Root == 0
\* The layer objects that can exist at one time.
Layers == {1, 2}
Modes == {DEFAULT_MODE, PASS_THROUGH_MODE}
Opacities == {50, 100}
\* Tiles a stroke can touch, as their pixel rectangles.
Tiles == {<<0, 0, N, N>>, <<N, 0, N, N>>}
FrameArgs == {NoArg, 0, N}

CREATE_PAINTING_LAYER_IF_EMPTY == TRUE

lightweight_settings ==
    {"radius_logarithmic", "color_h", "color_s", "color_v",
     "opaque", "hardness", "slow_tracking", "slow_tracking_per_dab"}
\* Two settings that are not lightweight stand for all the others.
SettingNames == lightweight_settings \cup {"eraser", "radius_by_random"}

\* ----------------------------------------------------------------- state

VARIABLES
    layers,          \* _layers: the root stack's children, as layer identities
    current,         \* _layers.current (Root when current_path is None)
    attr,            \* per layer object: visible, locked, opacity, mode, bbox
    frame,           \* _frame
    frame_enabled,   \* _frame_enabled
    xres, yres,      \* _xres, _yres: <<>> is None, <<r>> a value
    unsaved_painting_time,
    undo_stack,      \* command_stack.undo_stack, most recent last
    redo_stack,      \* command_stack.redo_stack, most recent last
    next_id,         \* identity of the next Command object constructed
    stroke,          \* the unfinished stroke: <<>> or <<[layer, old]>>
    events,          \* what the last call raised and touched, in order
    disk,            \* the file save() wrote last: <<>> or <<container>>
    painting_only,   \* _painting_only
    tempdir,         \* _tempdir: <<>> is None, <<n>> the directory named n
    tmpfs,           \* the temporary directories that exist, and their state
    last,            \* the last call: its name, arguments and result
    \* The round-trip scenario: its phase, the document before and after the
    \* commands, and the numbers of do(), undo() and redo() calls made.
    phase, snap0, snapN, nDone, nUndone, nRedone,
    nCalls           \* the length of a session of entry-point calls

vars == <<layers, current, attr, frame, frame_enabled, xres, yres,
          unsaved_painting_time, undo_stack, redo_stack, next_id, stroke,
          events, disk, painting_only, tempdir, tmpfs, last, phase, snap0,
          snapN, nDone, nUndone, nRedone, nCalls>>

\* The document as one record.
Doc ==
    [layers |-> layers, current |-> current, attr |-> attr, frame |-> frame,
     frame_enabled |-> frame_enabled, xres |-> xres, yres |-> yres,
     unsaved_painting_time |-> unsaved_painting_time,
     undo_stack |-> undo_stack, redo_stack |-> redo_stack,
     next_id |-> next_id, stroke |-> stroke, events |-> <<>>, ret |-> <<>>,
     raised |-> "", disk |-> disk, painting_only |-> painting_only,
     tempdir |-> tempdir, tmpfs |-> tmpfs]

\* ------------------------------------------------------------ helpers.Rect

Rect_empty(r) == r[3] = 0 \/ r[4] = 0

expandToIncludePoint(r, x, y) ==
    IF r[3] = 0 \/ r[4] = 0 THEN <<x, y, 1, 1>>
    ELSE LET x0 == IF x < r[1] THEN x ELSE r[1]
             y0 == IF y < r[2] THEN y ELSE r[2]
             w0 == IF x < r[1] THEN r[3] + (r[1] - x) ELSE r[3]
             h0 == IF y < r[2] THEN r[4] + (r[2] - y) ELSE r[4]
             w1 == IF x > x0 + w0 - 1 THEN w0 + (x - (x0 + w0 - 1)) ELSE w0
             h1 == IF y > y0 + h0 - 1 THEN h0 + (y - (y0 + h0 - 1)) ELSE h0
         IN <<x0, y0, w1, h1>>

expandToIncludeRect(r, other) ==
    IF Rect_empty(other) THEN r
    ELSE LET r1 == expandToIncludePoint(r, other[1], other[2])
         IN expandToIncludePoint(r1, other[1] + other[3] - 1,
                                 other[2] + other[4] - 1)

\* ------------------------------------------------------------------ events

\* An observable.event raised, or committed state touched, at a call depth
\* (0: by the method called; 1: by an observer of that method's flush).
Emit(d, ev, depth, arg) ==
    [d EXCEPT !.events = Append(@, [ev |-> ev, depth |-> depth, arg |-> arg])]

Touch(d, depth) == Emit(d, "touch", depth, <<>>)

canvas_area_modified(d, rect) == Emit(d, "canvas_area_modified", 0, rect)

frame_updated(d, old_frame, new_frame) ==
    Emit(d, "frame_updated", 0, old_frame \o new_frame)

frame_enabled_changed(d, enabled) ==
    Emit(d, "frame_enabled_changed", 0, <<IF enabled THEN 1 ELSE 0>>)

\* ----------------------------------------------- frame, without a command

\* update_frame(..., user_initiated=False): the non-None parts replace the
\* frame's, and frame_updated is raised when the frame changed.
update_frame_direct(d, x, y, width, height) ==
    LET d0 == Touch(d, 0)
        args == <<x, y, width, height>>
        part(i) == IF args[i] # NoArg THEN args[i] ELSE d.frame[i]
        new_frame == <<part(1), part(2), part(3), part(4)>>
    IN IF new_frame # d.frame
       THEN frame_updated([d0 EXCEPT !.frame = new_frame], d.frame, new_frame)
       ELSE d0

\* set_frame_enabled(enabled, user_initiated=False), past the early return.
set_frame_enabled_direct(d, enabled) ==
    frame_enabled_changed([d EXCEPT !.frame_enabled = enabled], enabled)

\* ------------------------------------------------------- lib.command.Command

B2I(b) == IF b THEN 1 ELSE 0
I2B(i) == i = 1

AttrKinds == {"SetLayerVisibility", "SetLayerLocked", "SetLayerOpacity",
              "SetLayerMode"}
ContentKinds == {"Brushwork", "FloodFill", "ClearLayer", "TrimLayer"}
StackKinds == {"AddLayer", "RemoveLayer", "LoadLayer"}

\* A Command object: what it changes (kind, layer), the value it sets, the
\* snapshot it reverts to, its identity and its automatic_undo flag.
Command(kind, layer, val, automatic_undo) ==
    [kind |-> kind, layer |-> layer, val |-> val, old |-> <<>>, id |-> 0,
     arg |-> <<>>, automatic_undo |-> automatic_undo]

\* The value a command's target holds in document d.
Command_get(d, c) ==
    CASE c.kind = "SetLayerVisibility" -> <<B2I(d.attr[c.layer].visible)>>
      [] c.kind = "SetLayerLocked" -> <<B2I(d.attr[c.layer].locked)>>
      [] c.kind = "SetLayerOpacity" -> <<d.attr[c.layer].opacity>>
      [] c.kind = "SetLayerMode" -> <<d.attr[c.layer].mode>>
      [] c.kind \in ContentKinds -> d.attr[c.layer].bbox
      [] c.kind = "SelectLayer" -> <<d.current>>
      [] c.kind \in StackKinds -> d.layers \o <<d.current>>
      [] c.kind = "UpdateFrame" -> d.frame
      [] c.kind = "SetFrameEnabled" -> <<B2I(d.frame_enabled)>>

\* Document d with a command's target set to v.
Command_set(d, c, v) ==
    CASE c.kind = "SetLayerVisibility" ->
            [d EXCEPT !.attr[c.layer].visible = I2B(v[1])]
      [] c.kind = "SetLayerLocked" ->
            [d EXCEPT !.attr[c.layer].locked = I2B(v[1])]
      [] c.kind = "SetLayerOpacity" ->
            [d EXCEPT !.attr[c.layer].opacity = v[1]]
      [] c.kind = "SetLayerMode" ->
            [d EXCEPT !.attr[c.layer].mode = v[1]]
      [] c.kind \in ContentKinds ->
            [d EXCEPT !.attr[c.layer].bbox = v]
      [] c.kind = "SelectLayer" -> [d EXCEPT !.current = v[1]]
      [] c.kind \in StackKinds ->
            [d EXCEPT !.layers = SubSeq(v, 1, Len(v) - 1),
                      !.current = v[Len(v)]]
      [] c.kind = "UpdateFrame" ->
            update_frame_direct(d, v[1], v[2], v[3], v[4])
      [] c.kind = "SetFrameEnabled" ->
            IF d.frame_enabled = I2B(v[1]) THEN d
            ELSE set_frame_enabled_direct(d, I2B(v[1]))

\* Command.redo(): apply.  Command.undo(): revert to the snapshot.
Command_redo(d, c) == Command_set(d, c, c.val)
Command_undo(d, c) == Command_set(d, c, c.old)

\* ------------------------------------------------- lib.command.CommandStack

Top(s) == IF s = <<>> THEN <<>> ELSE <<s[Len(s)]>>
Pop(s) == SubSeq(s, 1, Len(s) - 1)

\* do(cmd): apply, push on undo_stack, clear redo_stack.  The command takes
\* its pre-apply snapshot here unless it was built with one (Brushwork).
CommandStack_do(d, cmd, depth) ==
    LET c == [cmd EXCEPT !.id = d.next_id,
                         !.old = IF cmd.old = <<>> THEN Command_get(d, cmd)
                                 ELSE cmd.old]
        d1 == Command_redo(Touch(d, depth), c)
    IN [d1 EXCEPT !.undo_stack = Append(d1.undo_stack, c),
                  !.redo_stack = <<>>,
                  !.next_id = d.next_id + 1,
                  !.ret = <<>>]

\* undo(): pop undo_stack, revert, push on redo_stack, return the command.
CommandStack_undo(d) ==
    LET d0 == Touch(d, 0)
    IN IF d.undo_stack = <<>> THEN [d0 EXCEPT !.ret = <<>>]
       ELSE LET c == d.undo_stack[Len(d.undo_stack)]
                d1 == Command_undo(d0, c)
            IN [d1 EXCEPT !.undo_stack = Pop(d.undo_stack),
                          !.redo_stack = Append(d.redo_stack, c),
                          !.ret = <<c>>]

\* redo(): pop redo_stack, re-apply, push on undo_stack, return the command.
CommandStack_redo(d) ==
    LET d0 == Touch(d, 0)
    IN IF d.redo_stack = <<>> THEN [d0 EXCEPT !.ret = <<>>]
       ELSE LET c == d.redo_stack[Len(d.redo_stack)]
                d1 == Command_redo(d0, c)
            IN [d1 EXCEPT !.redo_stack = Pop(d.redo_stack),
                          !.undo_stack = Append(d.undo_stack, c),
                          !.ret = <<c>>]

\* get_last_command(): peek.
CommandStack_get_last_command(d) ==
    [Touch(d, 0) EXCEPT !.ret = Top(d.undo_stack)]

\* update_last_command() pushing the updated command once more.
CommandStack_update_last_command_repushed(d, val) ==
    IF d.undo_stack = <<>> THEN [Touch(d, 0) EXCEPT !.ret = <<>>]
    ELSE LET c == [d.undo_stack[Len(d.undo_stack)] EXCEPT !.val = val]
         IN [Command_redo(Touch(d, 0), c) EXCEPT
                !.undo_stack = Append(d.undo_stack, c), !.ret = <<c>>]

\* update_last_command(**kwargs): the most recent undo_stack entry takes the
\* new value in place and applies it; nothing is pushed, and redo_stack is
\* left as it is.  None when there is no entry.
CommandStack_update_last_command(d, val) ==
    LET d0 == Touch(d, 0)
    IN IF d.undo_stack = <<>> THEN [d0 EXCEPT !.ret = <<>>]
       ELSE LET n == Len(d.undo_stack)
                c == [d.undo_stack[n] EXCEPT !.val = val]
                d1 == Command_redo(d0, c)
            IN [d1 EXCEPT !.undo_stack[n] = c, !.ret = <<c>>]

\* clear(): both stacks dropped, nothing reverted.
CommandStack_clear(d) ==
    [Touch(d, 0) EXCEPT !.undo_stack = <<>>, !.redo_stack = <<>>]

\* ------------------------------------------- Document: the undo/redo methods

RECURSIVE flush_updates(_, _)
RECURSIVE do(_, _, _)

\* The flush_updates event.  Its observer (the stroke accumulator) turns the
\* unfinished, already rendered stroke into a command with do().
flush_updates(d, depth) ==
    LET d0 == Emit(d, "flush_updates", depth, <<>>)
    IN IF d.stroke = <<>> THEN d0
       ELSE LET s == d.stroke[1]
                cmd == [Command("Brushwork", s.layer,
                                d.attr[s.layer].bbox, FALSE)
                          EXCEPT !.old = s.old]
            IN do([d0 EXCEPT !.stroke = <<>>], cmd, depth + 1)

\* do() appending to undo_stack itself instead of calling CommandStack.do().
do_appended(d, cmd, depth) ==
    LET d1 == flush_updates(d, depth)
    IN [CommandStack_do(d1, cmd, depth) EXCEPT !.redo_stack = d1.redo_stack]

\* do() recording the command before it raises the flush.
do_recorded_first(d, cmd, depth) ==
    flush_updates(CommandStack_do(d, cmd, depth), depth)

do(d, cmd, depth) ==
    CommandStack_do(flush_updates(d, depth), cmd, depth)

RECURSIVE undo_loop(_)
undo_loop(d) ==
    LET d1 == CommandStack_undo(d)
    IN IF d1.ret = <<>> \/ ~d1.ret[1].automatic_undo THEN d1
       ELSE undo_loop(d1)

RECURSIVE redo_loop(_)
redo_loop(d) ==
    LET d1 == CommandStack_redo(d)
    IN IF d1.ret = <<>> \/ ~d1.ret[1].automatic_undo THEN d1
       ELSE redo_loop(d1)

\* undo() without its loop, and undo() calling command_stack.redo().
undo_once(d) == CommandStack_undo(flush_updates(d, 0))
undo_as_redo(d) == redo_loop(flush_updates(d, 0))

undo(d) == undo_loop(flush_updates(d, 0))

redo(d) == redo_loop(flush_updates(d, 0))

update_last_command(d, val) ==
    CommandStack_update_last_command(flush_updates(d, 0), val)

get_last_command(d) ==
    CommandStack_get_last_command(flush_updates(d, 0))

\* ------------------------------------------------- Document: bounding boxes

RECURSIVE get_bbox_from(_, _, _)
get_bbox_from(d, i, res) ==
    IF i > Len(d.layers) THEN res
    ELSE get_bbox_from(d, i + 1,
                       expandToIncludeRect(res, d.attr[d.layers[i]].bbox))

\* get_bbox(): the union of the layers' data bounding boxes.
get_bbox(d) == get_bbox_from(d, 1, <<0, 0, 0, 0>>)

\* layer.get_full_redraw_bbox(): the layer's data bbox, or the zero-size
\* rectangle when the layer reports an infinite one (the layers in inf).
Layer_get_full_redraw_bbox(d, l, inf) ==
    IF l \in inf THEN <<0, 0, 0, 0>> ELSE d.attr[l].bbox

RECURSIVE get_full_redraw_bbox_from(_, _, _, _)
get_full_redraw_bbox_from(d, inf, i, res) ==
    IF i > Len(d.layers) THEN res
    ELSE LET bbox == Layer_get_full_redraw_bbox(d, d.layers[i], inf)
         IN get_full_redraw_bbox_from(d, inf, i + 1,
               IF bbox[3] = 0 /\ bbox[4] = 0 THEN bbox
               ELSE expandToIncludeRect(res, bbox))

get_full_redraw_bbox(d, inf) ==
    get_full_redraw_bbox_from(d, inf, 1, <<0, 0, 0, 0>>)

get_effective_bbox(d) == IF d.frame_enabled THEN d.frame ELSE get_bbox(d)

\* ------------------------------------------------ Document: frame frontends

update_frame(d, x, y, width, height, user_initiated) ==
    LET fr == <<x, y, width, height>>
    IN IF user_initiated
       THEN LET d1 == get_last_command(d)
            IN IF d1.ret # <<>> /\ d1.ret[1].kind = "UpdateFrame"
               THEN update_last_command(d1, fr)
               ELSE do(d1, Command("UpdateFrame", Root, fr, FALSE), 0)
       ELSE update_frame_direct(d, x, y, width, height)

set_frame(d, fr, user_initiated) ==
    update_frame(d, fr[1], fr[2], fr[3], fr[4], user_initiated)

set_frame_enabled(d, enabled, user_initiated) ==
    LET d0 == Touch(d, 0)
    IN IF d.frame_enabled = enabled THEN d0
       ELSE IF user_initiated
            THEN do(d0, Command("SetFrameEnabled", Root, <<B2I(enabled)>>,
                                FALSE), 0)
            ELSE set_frame_enabled_direct(d0, enabled)

\* The part of rectangle r inside rectangle f (TrimLayer's result).
Rect_intersection(r, f) ==
    LET x0 == IF r[1] > f[1] THEN r[1] ELSE f[1]
        y0 == IF r[2] > f[2] THEN r[2] ELSE f[2]
        rx == r[1] + r[3]
        fx == f[1] + f[3]
        ry == r[2] + r[4]
        fy == f[2] + f[4]
        x1 == IF rx < fx THEN rx ELSE fx
        y1 == IF ry < fy THEN ry ELSE fy
    IN IF Rect_empty(r) \/ Rect_empty(f) \/ x1 <= x0 \/ y1 <= y0
       THEN <<0, 0, 0, 0>>
       ELSE <<x0, y0, x1 - x0, y1 - y0>>

trim_current_layer(d) ==
    LET d0 == Touch(d, 0)
    IN IF ~d.frame_enabled THEN d0
       ELSE do(d0, Command("TrimLayer", d.current,
                           Rect_intersection(d.attr[d.current].bbox, d.frame),
                           FALSE), 0)

\* ------------------------------------------------ Document: layer frontends

\* The layer objects some command of the undo stack still refers to.
Referenced(d) ==
    UNION {{d.undo_stack[i].layer}
             \cup (IF d.undo_stack[i].kind \in StackKinds
                   THEN {d.undo_stack[i].val[j] :
                            j \in 1..Len(d.undo_stack[i].val)}
                        \cup {d.undo_stack[i].old[j] :
                                 j \in 1..Len(d.undo_stack[i].old)}
                   ELSE {}) : i \in 1..Len(d.undo_stack)}

FreeLayers(d) ==
    {l \in Layers : l \notin Referenced(d) /\
                    \A i \in 1..Len(d.layers) : d.layers[i] # l}

\* A newly constructed layer.PaintingLayer.
NewLayer == [visible |-> TRUE, locked |-> FALSE, opacity |-> 100,
             mode |-> DEFAULT_MODE, bbox |-> <<0, 0, 0, 0>>]

Without(s, l) == SelectSeq(s, LAMBDA e : e # l)

select_layer(d, layer) ==
    do(d, Command("SelectLayer", layer, <<layer>>, TRUE), 0)

\* add_layer(path): a new layer object l goes on top and becomes current.
add_layer(d, l) ==
    do([d EXCEPT !.attr[l] = NewLayer],
       Command("AddLayer", l, Append(d.layers, l) \o <<l>>, FALSE), 0)

\* remove_current_layer(): the layer left on top becomes current; a stack
\* left empty gets the new blank layer l.
remove_current_layer(d, l) ==
    LET d0 == Touch(d, 0)
        rest == Without(d.layers, d.current)
    IN IF d.current = Root THEN d0
       ELSE IF rest = <<>>
            THEN do([d0 EXCEPT !.attr[l] = NewLayer],
                    Command("RemoveLayer", d.current, <<l, l>>, FALSE), 0)
            ELSE do(d0, Command("RemoveLayer", d.current,
                                rest \o <<rest[Len(rest)]>>, FALSE), 0)

clear_current_layer(d) ==
    LET d0 == Touch(d, 0)
        can_clear == d.current # Root /\ ~Rect_empty(d.attr[d.current].bbox)
    IN IF ~can_clear THEN d0
       ELSE do(d0, Command("ClearLayer", d.current, <<0, 0, 0, 0>>, FALSE), 0)

\* set_layer_visibility() coalescing on the command's kind alone.
set_layer_visibility_any_layer(d, visible, layer) ==
    IF layer = Root THEN d
    ELSE LET d1 == get_last_command(d)
         IN IF d1.ret # <<>> /\ d1.ret[1].kind = "SetLayerVisibility"
            THEN update_last_command(d1, <<B2I(visible)>>)
            ELSE do(d1, Command("SetLayerVisibility", layer,
                                <<B2I(visible)>>, FALSE), 0)

set_layer_visibility(d, visible, layer) ==
    IF layer = Root THEN d
    ELSE LET d1 == get_last_command(d)
         IN IF d1.ret # <<>> /\ d1.ret[1].kind = "SetLayerVisibility"
                             /\ d1.ret[1].layer = layer
            THEN update_last_command(d1, <<B2I(visible)>>)
            ELSE do(d1, Command("SetLayerVisibility", layer,
                                <<B2I(visible)>>, FALSE), 0)

set_layer_locked(d, locked, layer) ==
    IF layer = Root THEN d
    ELSE LET d1 == get_last_command(d)
         IN IF d1.ret # <<>> /\ d1.ret[1].kind = "SetLayerLocked"
                             /\ d1.ret[1].layer = layer
            THEN update_last_command(d1, <<B2I(locked)>>)
            ELSE do(d1, Command("SetLayerLocked", layer,
                                <<B2I(locked)>>, FALSE), 0)

\* set_current_layer_opacity() pushing a command at every call.
set_current_layer_opacity_uncoalesced(d, opacity) ==
    LET d0 == Touch(d, 0)
    IN IF d.current = Root THEN d0
       ELSE IF d.attr[d.current].mode = PASS_THROUGH_MODE THEN d0
       ELSE do(d0, Command("SetLayerOpacity", d.current, <<opacity>>,
                           FALSE), 0)

set_current_layer_opacity(d, opacity) ==
    LET d0 == Touch(d, 0)
    IN IF d.current = Root THEN d0
       ELSE IF d.attr[d.current].mode = PASS_THROUGH_MODE THEN d0
       ELSE LET d1 == get_last_command(d0)
            IN IF d1.ret # <<>> /\ d1.ret[1].kind = "SetLayerOpacity"
                                /\ d1.ret[1].layer = d.current
               THEN update_last_command(d1, <<opacity>>)
               ELSE do(d1, Command("SetLayerOpacity", d.current,
                                   <<opacity>>, FALSE), 0)

set_current_layer_mode(d, mode) ==
    LET d0 == Touch(d, 0)
    IN IF d.current = Root THEN d0
       ELSE do(d0, Command("SetLayerMode", d.current, <<mode>>, FALSE), 0)

\* ------------------------------------------- Document: the working tempdir

\* The method ends with an exception.
Raise(d, what) == [d EXCEPT !.raised = what]

\* tempfile.mkdtemp(): a directory of a name that no directory has.
mkdtemp(fs) == CHOOSE n \in 1..(Cardinality(fs.dirs) + 1) : n \notin fs.dirs

\* _create_tempdir(): nothing for a painting-only document; else a new,
\* empty directory becomes the tempdir.
_create_tempdir(d) ==
    IF d.painting_only THEN d
    ELSE IF d.tempdir # <<>> THEN Raise(d, "AssertionError")
    ELSE LET n == mkdtemp(d.tmpfs)
         IN [d EXCEPT !.tempdir = <<n>>,
                      !.tmpfs.dirs = @ \cup {n},
                      !.tmpfs.nested = FALSE]

\* _cleanup_tempdir(): nothing for a painting-only document; else the
\* tempdir is forgotten and its tree removed.  Where the removals fail with
\* OSError (tmpfs.busy) the directory stays: the failures inside the tree
\* are logged, and the handler of the last os.rmdir logs the name subtemp,
\* which is bound only when the tree held a subdirectory (tmpfs.nested).
_cleanup_tempdir(d) ==
    IF d.painting_only THEN d
    ELSE IF d.tempdir = <<>> THEN Raise(d, "AssertionError")
    ELSE LET d1 == [d EXCEPT !.tempdir = <<>>]
         IN IF ~d.tmpfs.busy
            THEN [d1 EXCEPT !.tmpfs.dirs = @ \ {d.tempdir[1]},
                            !.tmpfs.nested = FALSE]
            ELSE IF d.tmpfs.nested THEN d1
            ELSE Raise(d1, "UnboundLocalError")

cleanup(d) == _cleanup_tempdir(d)

\* ------------------------------------------------------ Document: the rest

\* clear() keeping the insertion of the blank layer in the history.
clear_keeping_insertion(d, inf) ==
    LET d1 == flush_updates(d, 0)
        d2 == CommandStack_clear(Touch(d1, 0))
        d3 == [d2 EXCEPT !.layers = <<>>, !.current = Root,
                         !.attr = [l \in Layers |-> NewLayer]]
        a == add_layer(d3, 1)
        d5 == [a EXCEPT !.current = a.layers[1], !.unsaved_painting_time = 0]
        d7 == set_frame_enabled(set_frame(d5, <<0, 0, 0, 0>>, FALSE),
                                FALSE, FALSE)
    IN canvas_area_modified([d7 EXCEPT !.xres = <<>>, !.yres = <<>>],
                            get_full_redraw_bbox(d1, inf))

\* clear(), the tempdir: the old one cleaned up, if there is one, and a new
\* one created.
replace_tempdir(d) ==
    LET t == IF d.tempdir # <<>> THEN _cleanup_tempdir(d) ELSE d
    IN IF t.raised # "" THEN t ELSE _create_tempdir(t)

\* clear(), from the tempdir replaced (d1) on.
clear_from(d1, prev_area) ==
    LET d2 == CommandStack_clear(Touch(d1, 0))
        d3 == [d2 EXCEPT !.layers = <<>>, !.current = Root,
                         !.attr = [l \in Layers |-> NewLayer]]
        d4 == IF CREATE_PAINTING_LAYER_IF_EMPTY
              THEN LET a == add_layer(d3, 1)
                   IN [CommandStack_clear([a EXCEPT !.current = a.layers[1]])
                         EXCEPT !.next_id = 1]
              ELSE [d3 EXCEPT !.current = Root]
        d5 == [d4 EXCEPT !.unsaved_painting_time = 0]
        d6 == set_frame(d5, <<0, 0, 0, 0>>, FALSE)
        d7 == set_frame_enabled(d6, FALSE, FALSE)
        d8 == [d7 EXCEPT !.xres = <<>>, !.yres = <<>>]
    IN IF d1.raised # "" THEN d1 ELSE canvas_area_modified(d8, prev_area)

\* clear(): flush, remember the full-redraw bbox, replace the tempdir, and
\* from there (clear_from) drop the history and the layers, add one blank
\* layer (which the history forgets again), reset the frame and the
\* resolution, and announce the remembered area.  An exception of the
\* tempdir's removal ends it.
clear(d, inf) ==
    LET d0 == flush_updates(d, 0)
    IN clear_from(replace_tempdir(d0), get_full_redraw_bbox(d0, inf))

\* brushsettings_changed_cb() flushing at every change.
brushsettings_changed_cb_eager(d, settings) == flush_updates(d, 0)

brushsettings_changed_cb(d, settings) ==
    IF settings \ lightweight_settings # {} THEN flush_updates(d, 0) ELSE d

invalidate_all(d) == canvas_area_modified(d, <<0, 0, 0, 0>>)

\* flood_fill() rounding the seed's tile towards zero.
flood_fill_truncating(d, x, y) ==
    LET trunc(v) == IF v < 0 THEN -((-v) \div N) ELSE v \div N
        eff == get_effective_bbox(d)
        bbox == IF Rect_empty(eff)
                THEN <<N * trunc(x), N * trunc(y), N, N>>
                ELSE IF ~d.frame_enabled
                     THEN expandToIncludePoint(eff, x, y)
                     ELSE eff
        cmd == [Command("FloodFill", d.current,
                        expandToIncludeRect(d.attr[d.current].bbox, bbox),
                        FALSE) EXCEPT !.arg = bbox]
    IN do(Touch(d, 0), cmd, 0)

\* flood_fill(x, y, ...) on a fillable current layer.  The FloodFill command
\* carries the limiting rectangle (arg) and grows the layer's data bbox by it.
flood_fill(d, x, y) ==
    LET d0 == Touch(d, 0)
        eff == get_effective_bbox(d)
        bbox == IF Rect_empty(eff)
                THEN <<N * (x \div N), N * (y \div N), N, N>>
                ELSE IF ~d.frame_enabled
                     THEN expandToIncludePoint(eff, x, y)
                     ELSE eff
        cmd == [Command("FloodFill", d.current,
                        expandToIncludeRect(d.attr[d.current].bbox, bbox),
                        FALSE) EXCEPT !.arg = bbox]
    IN do(d0, cmd, 0)

SaveExts == {"ora", "png", "jpg", "jpeg"}
LoadExts == {"ora", "png", "jpg", "jpeg"}
Exts == SaveExts \cup {"xcf"}
\* How a save_<ext> or load_<ext> method ends: it returns, or a call it makes
\* raises (GObject.GError from the pixbuf codec, IOError from the archive or
\* the file, OSError from tempfile and os, KeyError from ZipFile.read of an
\* entry the archive does not have).
Outcomes == {"ok", "GError", "IOError", "OSError", "KeyError"}

\* get_resolution(): the larger of the stored resolutions, at least 1, or
\* the default when one of them is unset or zero.
get_resolution(d) ==
    IF d.xres # <<>> /\ d.yres # <<>> /\ d.xres[1] # 0 /\ d.yres[1] # 0
    THEN LET m == IF d.xres[1] > d.yres[1] THEN d.xres[1] ELSE d.yres[1]
         IN IF m > 1 THEN m ELSE 1
    ELSE DEFAULT_RESOLUTION

\* Python's int() of a number given in halves (3 is 1.5): the fraction is
\* dropped, towards zero.
int(h) == IF h >= 0 THEN h \div 2 ELSE -((-h) \div 2)

\* set_resolution() storing int(res) as it is.
set_resolution_unclamped(d, res) ==
    IF res = <<>> THEN [d EXCEPT !.xres = <<>>, !.yres = <<>>]
    ELSE [d EXCEPT !.xres = <<int(res[1])>>, !.yres = <<int(res[1])>>]

\* set_resolution(res): both stored resolutions become int(res), at least
\* 1, or unset for None.  res is <<>> for None and <<h>> for the number h/2.
set_resolution(d, res) ==
    IF res = <<>> THEN [d EXCEPT !.xres = <<>>, !.yres = <<>>]
    ELSE LET r == IF int(res[1]) > 1 THEN int(res[1]) ELSE 1
         IN [d EXCEPT !.xres = <<r>>, !.yres = <<r>>]

\* A layer's data in the archive: its bbox relative to the saved area's
\* origin (an empty layer has none).
Layer_save_to_openraster(bbox, frame_bbox) ==
    IF Rect_empty(bbox) THEN bbox
    ELSE <<bbox[1] - frame_bbox[1], bbox[2] - frame_bbox[2], bbox[3], bbox[4]>>

\* save_ora() writing stack.xml as soon as the archive is open.
save_ora_xml_first(d, outcome) ==
    [Touch(d, 0) EXCEPT !.disk =
        <<[entries |-> <<"stack.xml", "mimetype">>
                          \o [i \in 1..Len(d.layers) |-> "layer"]
                          \o <<"Thumbnails/thumbnail.png", "mergedimage.png">>,
           image |-> [w |-> 0, h |-> 0, xres |-> 0, yres |-> 0,
                      stack |-> [i \in 1..Len(d.layers) |->
                                   d.attr[d.layers[i]].bbox]]]>>]

\* What save_ora() does to its scratch directory and the files in it.
scratch(d, what, name) == Emit(d, what, 0, <<name>>)

\* save_<ext> of the other formats: the file is written, or the codec fails.
save_png(d, outcome) ==
    IF outcome = "ok" THEN Touch(d, 0) ELSE Raise(Touch(d, 0), outcome)

\* save_ora(filename): the archive's entries in the order they are written,
\* and what stack.xml declares: the effective bbox's size, the resolution
\* when both values are set and non-zero (0: attribute absent), the layers.
\* The scratch directory is made first and removed last; the thumbnail and
\* the merged image are written into it, copied into the archive and
\* removed.  A call that raises ends the method where it stands: mkdtemp
\* (OSError), lib.pixbuf.save of the thumbnail (GError), orazip.write of the
\* thumbnail (IOError).  The file named is replaced when the method returns
\* (fileutils.via_tempfile), and is left as it was when it raises.
save_ora(d, outcome) ==
    LET d0 == Touch(d, 0)
        effective_bbox == get_effective_bbox(d)
        stack == [i \in 1..Len(d.layers) |->
                    Layer_save_to_openraster(d.attr[d.layers[i]].bbox,
                                             effective_bbox)]
        has_res == /\ d.xres # <<>> /\ d.yres # <<>>
                   /\ d.xres[1] # 0 /\ d.yres[1] # 0
        image == [w |-> effective_bbox[3], h |-> effective_bbox[4],
                  xres |-> IF has_res THEN d.xres[1] ELSE 0,
                  yres |-> IF has_res THEN d.yres[1] ELSE 0,
                  stack |-> stack]
        entries == <<"mimetype">>
                      \o [i \in 1..Len(d.layers) |-> "layer"]
                      \o <<"Thumbnails/thumbnail.png", "mergedimage.png",
                           "stack.xml">>
        t1 == scratch(d0, "mkdtemp", "")
        t2 == scratch(t1, "lib.pixbuf.save", "tmp.png")
        t3 == scratch(t2, "os.remove", "tmp.png")
        t4 == scratch(t3, "save_as_png", "mergedimage.png")
        t5 == scratch(t4, "os.remove", "mergedimage.png")
        t6 == scratch(t5, "os.rmdir", "")
    IN CASE outcome = "ok" ->
               [t6 EXCEPT !.disk = <<[entries |-> entries, image |-> image]>>]
         [] outcome = "OSError" -> Raise(d0, outcome)
         [] outcome = "GError" -> Raise(t1, outcome)
         [] OTHER -> Raise(t2, outcome)

\* save() counting the document as saved whatever save_<ext> did.
save_marking_saved(d, ext, outcome) ==
    LET d1 == flush_updates(d, 0)
    IN IF ext \notin SaveExts
       THEN Raise([d1 EXCEPT !.unsaved_painting_time = 0], "SaveLoadError")
       ELSE LET d2 == Touch(d1, 0)
            IN IF outcome # "ok"
               THEN Raise([d2 EXCEPT !.unsaved_painting_time = 0],
                          "SaveLoadError")
               ELSE [d2 EXCEPT !.unsaved_painting_time = 0]

\* The except clauses of save() and load(): GError and IOError are raised
\* again as SaveLoadError, anything else passes.
translated(r) ==
    IF r.raised \in {"GError", "IOError"} THEN Raise(r, "SaveLoadError")
    ELSE r

\* save() leaving unsaved_painting_time as it is.
save_counting_on(d, ext, outcome) ==
    LET d1 == flush_updates(d, 0)
    IN IF ext \notin SaveExts THEN Raise(d1, "SaveLoadError")
       ELSE translated(save_png(d1, outcome))

\* save(), past the try block: the painting counts as saved.
saved(r) ==
    IF r.raised # "" THEN r ELSE [r EXCEPT !.unsaved_painting_time = 0]

\* save(filename): flush, choose save_<ext> (else _unsupported), translate
\* GError and IOError (any other exception passes), and reset
\* unsaved_painting_time after a save that returned.
save(d, ext, outcome) ==
    LET d1 == flush_updates(d, 0)
    IN IF ext \notin SaveExts THEN Raise(d1, "SaveLoadError")
       ELSE saved(translated(IF ext = "ora" THEN save_ora(d1, outcome)
                             ELSE save_png(d1, outcome)))

\* load_ora() restoring a resolution from whichever attribute is given.
load_ora_any_resolution(d, w, h, image_xres, image_yres, lbs) ==
    LET image_width == IF w > 0 THEN w ELSE 0
        image_height == IF h > 0 THEN h ELSE 0
        ixres == IF image_xres > 0 THEN image_xres ELSE 0
        iyres == IF image_yres > 0 THEN image_yres ELSE 0
        d1 == [Touch(d, 0) EXCEPT
                 !.layers = [i \in 1..Len(lbs) |-> i],
                 !.current = IF lbs = <<>> THEN Root ELSE 1,
                 !.attr = [l \in Layers |->
                             IF l <= Len(lbs)
                             THEN [NewLayer EXCEPT !.bbox = lbs[l]]
                             ELSE NewLayer]]
        d2 == IF ixres # 0 \/ iyres # 0
              THEN [d1 EXCEPT !.xres = <<ixres>>, !.yres = <<iyres>>]
              ELSE [d1 EXCEPT !.xres = <<>>, !.yres = <<>>]
        d3 == update_frame(d2, 0, 0, image_width, image_height, FALSE)
        bbox_c == <<0, 0, image_width, image_height>>
        bbox == get_bbox(d3)
        frame_enab == ~(bbox_c = bbox \/ Rect_empty(bbox) \/ Rect_empty(bbox_c))
    IN IF lbs = <<>> THEN Raise(d1, "AssertionError")
       ELSE set_frame_enabled(d3, frame_enab, FALSE)

\* load_ora() comparing the declared size with the data bbox's size only.
load_ora_by_size(d, w, h, image_xres, image_yres, lbs) ==
    LET image_width == IF w > 0 THEN w ELSE 0
        image_height == IF h > 0 THEN h ELSE 0
        ixres == IF image_xres > 0 THEN image_xres ELSE 0
        iyres == IF image_yres > 0 THEN image_yres ELSE 0
        d1 == [Touch(d, 0) EXCEPT
                 !.layers = [i \in 1..Len(lbs) |-> i],
                 !.current = IF lbs = <<>> THEN Root ELSE 1,
                 !.attr = [l \in Layers |->
                             IF l <= Len(lbs)
                             THEN [NewLayer EXCEPT !.bbox = lbs[l]]
                             ELSE NewLayer]]
        d2 == IF ixres # 0 /\ iyres # 0
              THEN [d1 EXCEPT !.xres = <<ixres>>, !.yres = <<iyres>>]
              ELSE [d1 EXCEPT !.xres = <<>>, !.yres = <<>>]
        d3 == update_frame(d2, 0, 0, image_width, image_height, FALSE)
        bbox == get_bbox(d3)
        same == image_width = bbox[3] /\ image_height = bbox[4]
        frame_enab == ~(same \/ Rect_empty(bbox)
                             \/ image_width = 0 \/ image_height = 0)
    IN IF lbs = <<>> THEN Raise(d1, "AssertionError")
       ELSE set_frame_enabled(d3, frame_enab, FALSE)

\* load_ora(filename): the declared size and resolution (0 when absent) and
\* the loaded stack (layers 1..Len(lbs) with data bboxes lbs, the first one
\* selected) replace the document's.  The assertion after the layers are
\* loaded ends it when the file lists no layer.
load_ora(d, w, h, image_xres, image_yres, lbs) ==
    LET image_width == IF w > 0 THEN w ELSE 0
        image_height == IF h > 0 THEN h ELSE 0
        ixres == IF image_xres > 0 THEN image_xres ELSE 0
        iyres == IF image_yres > 0 THEN image_yres ELSE 0
        d1 == [Touch(d, 0) EXCEPT
                 !.layers = [i \in 1..Len(lbs) |-> i],
                 !.current = IF lbs = <<>> THEN Root ELSE 1,
                 !.attr = [l \in Layers |->
                             IF l <= Len(lbs)
                             THEN [NewLayer EXCEPT !.bbox = lbs[l]]
                             ELSE NewLayer]]
        d2 == IF ixres # 0 /\ iyres # 0
              THEN [d1 EXCEPT !.xres = <<ixres>>, !.yres = <<iyres>>]
              ELSE [d1 EXCEPT !.xres = <<>>, !.yres = <<>>]
        d3 == update_frame(d2, 0, 0, image_width, image_height, FALSE)
        bbox_c == <<0, 0, image_width, image_height>>
        bbox == get_bbox(d3)
        frame_enab == ~(bbox_c = bbox \/ Rect_empty(bbox) \/ Rect_empty(bbox_c))
    IN IF lbs = <<>> THEN Raise(d1, "AssertionError")
       ELSE set_frame_enabled(d3, frame_enab, FALSE)

\* load_png(filename), after its clear(): the image as a new layer l, then
\* the frame set to the image's bbox.
load_png_from(d1, l, lb) ==
    LET d2 == do([d1 EXCEPT !.attr[l] = [NewLayer EXCEPT !.bbox = lb]],
                 Command("LoadLayer", l, Append(d1.layers, l) \o <<l>>,
                         FALSE), 0)
    IN IF d1.raised # "" THEN d1 ELSE set_frame(d2, lb, FALSE)

\* load_png(filename): clear, then the image loaded.
load_png(d, inf, l, lb) == load_png_from(clear(d, inf), l, lb)

\* A loader that raises after its clear().
raised_after(c, what) == IF c.raised # "" THEN c ELSE Raise(c, what)

\* load(), past the try block: the history is dropped.
loaded(r) ==
    IF r.raised # "" THEN r
    ELSE [CommandStack_clear(r) EXCEPT !.unsaved_painting_time = 0,
                                       !.next_id = 1]

\* load() clearing the document before it looks at the file.
load_after_clear(d, isfile, readable, ext, outcome, inf, w, h, xr, yr, lbs) ==
    Raise(clear(d, inf), "SaveLoadError")

\* load(filename): the file checks, then load_<ext> (else _unsupported), then
\* the history is dropped.  isfile/readable are os.path.isfile and os.access.
\* A loader that does not return raised where it opens and reads the file:
\* load_ora before it changes the document, the others after their clear().
\* GError and IOError are translated; any other exception passes.
load(d, isfile, readable, ext, outcome, inf, w, h, xr, yr, lbs) ==
    IF ~isfile THEN Raise(d, "SaveLoadError")
    ELSE IF ~readable THEN Raise(d, "SaveLoadError")
    ELSE IF ext \notin LoadExts THEN Raise(d, "SaveLoadError")
    ELSE loaded(translated(
            CASE ext = "ora" /\ outcome = "ok" ->
                    load_ora(d, w, h, xr, yr, lbs)
              [] ext = "ora" -> Raise(d, outcome)
              [] outcome = "ok" -> load_png(d, inf, 2, lbs[1])
              [] OTHER -> raised_after(clear(d, inf), outcome)))

\* The stroke accumulator (an observer of the document, not part of it)
\* renders a stroke on the current layer; it stays unfinished until the
\* next flush_updates.
stroke_to(d, tile) ==
    [d EXCEPT !.stroke = <<[layer |-> d.current,
                            old |-> d.attr[d.current].bbox]>>,
              !.attr[d.current].bbox =
                  expandToIncludeRect(d.attr[d.current].bbox, tile),
              !.unsaved_painting_time = 1]

\* layers.current_path = path: the selection set without a command.
set_current_path(d, layer) == [d EXCEPT !.current = layer]

\* ----------------------------------------------------------------- actions

NoCall == [op |-> "init", layer |-> Root, val |-> <<>>, settings |-> {},
           len0 |-> 0, redo0 |-> 0, top0 |-> <<>>, pending0 |-> FALSE,
           ret |-> <<>>, raised |-> "", then |-> ""]

\* The record of a call of method op on the current document, giving d1:
\* its arguments (layer is the current layer for the methods that act on
\* it), the lengths of the undo and redo stacks, the kind and layer of the
\* undo stack's top entry and whether a stroke was unfinished when it was
\* called, and what it returned or raised.  "then"
\* names what happened to the document since without a call of a method: a
\* stroke begun, the selection switched.
CallRec(op, layer, val, settings, d1) ==
    [op |-> op, layer |-> layer, val |-> val, settings |-> settings,
     len0 |-> Len(undo_stack), redo0 |-> Len(redo_stack),
     top0 |-> IF undo_stack = <<>> THEN <<>>
              ELSE <<undo_stack[Len(undo_stack)].kind,
                     undo_stack[Len(undo_stack)].layer>>,
     pending0 |-> stroke # <<>>, ret |-> d1.ret, raised |-> d1.raised,
     then |-> ""]

\* The document becomes d1.
Becomes(d1) ==
    /\ layers' = d1.layers
    /\ current' = d1.current
    /\ attr' = d1.attr
    /\ frame' = d1.frame
    /\ frame_enabled' = d1.frame_enabled
    /\ xres' = d1.xres
    /\ yres' = d1.yres
    /\ unsaved_painting_time' = d1.unsaved_painting_time
    /\ undo_stack' = d1.undo_stack
    /\ redo_stack' = d1.redo_stack
    /\ next_id' = d1.next_id
    /\ stroke' = d1.stroke
    /\ events' = d1.events
    /\ disk' = d1.disk
    /\ painting_only' = d1.painting_only
    /\ tempdir' = d1.tempdir
    /\ tmpfs' = d1.tmpfs

\* No more Command objects than the bound allows.
Bounded(d1) == d1.next_id <= MaxCmds + 1

Call(op, layer, val, settings, d1) ==
    /\ Bounded(d1)
    /\ Becomes(d1)
    /\ last' = CallRec(op, layer, val, settings, d1)

scen == <<phase, snap0, snapN, nDone, nUndone, nRedone, nCalls>>

BoolSet == {TRUE, FALSE}
LayerArgs == Layers \cup {Root}
InStack(l) == \E i \in 1..Len(layers) : layers[i] = l

\* The commands a caller hands to do(): a selection, automatic or not.
DoCommands ==
    {Command("SelectLayer", l, <<l>>, a) : l \in {x \in Layers : InStack(x)},
                                         a \in BoolSet}

StrokeToStep ==
    /\ stroke = <<>>
    /\ current # Root
    /\ \E tile \in Tiles :
          /\ Becomes(stroke_to(Doc, tile))
          /\ last' = [last EXCEPT !.then = "stroke"]

SetCurrentPathStep ==
    \E l \in LayerArgs :
       /\ l = Root \/ InStack(l)
       /\ l # current
       /\ stroke = <<>>
       /\ Becomes(set_current_path(Doc, l))
       /\ last' = [last EXCEPT !.then = "switch"]

DoStep ==
    \E cmd \in DoCommands :
       Call("do", cmd.layer, <<B2I(cmd.automatic_undo)>>, {}, do(Doc, cmd, 0))

UndoStep == Call("undo", Root, <<>>, {}, undo(Doc))

RedoStep == Call("redo", Root, <<>>, {}, redo(Doc))

AddLayerStep ==
    /\ FreeLayers(flush_updates(Doc, 0)) # {}
    /\ LET l == CHOOSE x \in FreeLayers(flush_updates(Doc, 0)) : TRUE
       IN Call("add_layer", l, <<>>, {}, add_layer(Doc, l))

RemoveCurrentLayerStep ==
    /\ FreeLayers(flush_updates(Doc, 0)) # {} \/ Len(layers) > 1
                                              \/ current = Root
    /\ LET free == FreeLayers(flush_updates(Doc, 0))
           l == IF free = {} THEN Root ELSE CHOOSE x \in free : TRUE
       IN Call("remove_current_layer", current, <<>>, {},
               remove_current_layer(Doc, l))

SetFrameEnabledStep(users) ==
    \E e \in BoolSet, u \in users :
       Call("set_frame_enabled", Root, <<B2I(e), B2I(u)>>, {},
            set_frame_enabled(Doc, e, u))

UpdateFrameStep(users) ==
    \E x \in {0}, w \in FrameArgs, u \in users :
       Call("update_frame", Root, <<x, NoArg, w, w, B2I(u)>>, {},
            update_frame(Doc, x, NoArg, w, w, u))

StrokeTo == StrokeToStep /\ UNCHANGED scen
SetCurrentPath == SetCurrentPathStep /\ UNCHANGED scen
Do == DoStep /\ UNCHANGED scen
Undo == UndoStep /\ UNCHANGED scen
Redo == RedoStep /\ UNCHANGED scen
AddLayer == AddLayerStep /\ UNCHANGED scen
RemoveCurrentLayer == RemoveCurrentLayerStep /\ UNCHANGED scen
SetFrameEnabled(users) == SetFrameEnabledStep(users) /\ UNCHANGED scen
UpdateFrame(users) == UpdateFrameStep(users) /\ UNCHANGED scen

SetLayerVisibility ==
    \E v \in BoolSet, l \in LayerArgs :
       /\ l = Root \/ InStack(l)
       /\ Call("set_layer_visibility", l, <<B2I(v)>>, {},
               set_layer_visibility(Doc, v, l))
       /\ UNCHANGED scen

SetLayerLocked ==
    \E v \in BoolSet, l \in LayerArgs :
       /\ l = Root \/ InStack(l)
       /\ Call("set_layer_locked", l, <<B2I(v)>>, {},
               set_layer_locked(Doc, v, l))
       /\ UNCHANGED scen

SetCurrentLayerOpacity ==
    \E o \in Opacities :
       /\ Call("set_current_layer_opacity", current, <<o>>, {},
               set_current_layer_opacity(Doc, o))
       /\ UNCHANGED scen

SetCurrentLayerMode ==
    \E m \in Modes :
       /\ Call("set_current_layer_mode", current, <<m>>, {},
               set_current_layer_mode(Doc, m))
       /\ UNCHANGED scen

\* The document after construction (__init__ ends with clear()).
NewDocument ==
    /\ layers = <<1>>
    /\ current = 1
    /\ attr = [l \in Layers |-> NewLayer]
    /\ frame = <<0, 0, 0, 0>>
    /\ frame_enabled = FALSE
    /\ xres = <<>>
    /\ yres = <<>>
    /\ unsaved_painting_time = 0
    /\ undo_stack = <<>>
    /\ redo_stack = <<>>
    /\ next_id = 1
    /\ stroke = <<>>
    /\ events = <<>>
    /\ disk = <<>>
    /\ painting_only = FALSE
    /\ tempdir = <<1>>
    /\ tmpfs = [dirs |-> {1}, busy |-> FALSE, nested |-> FALSE]
    /\ last = NoCall

\* A new document that loaded a file of two empty layers with no declared
\* size or resolution.
LoadedDocument ==
    /\ layers = <<1, 2>>
    /\ current = 1
    /\ attr = [l \in Layers |-> NewLayer]
    /\ frame = <<0, 0, 0, 0>>
    /\ frame_enabled = FALSE
    /\ xres = <<>>
    /\ yres = <<>>
    /\ unsaved_painting_time = 0
    /\ undo_stack = <<>>
    /\ redo_stack = <<>>
    /\ next_id = 1
    /\ stroke = <<>>
    /\ events = <<>>
    /\ disk = <<>>
    /\ painting_only = FALSE
    /\ tempdir = <<1>>
    /\ tmpfs = [dirs |-> {1}, busy |-> FALSE, nested |-> FALSE]
    /\ last = NoCall

NoScenario ==
    /\ phase = "none"
    /\ snap0 = <<>>
    /\ snapN = <<>>
    /\ nDone = 0
    /\ nUndone = 0
    /\ nRedone = 0
    /\ nCalls = 0

Init == NewDocument /\ NoScenario

InitLoaded == LoadedDocument /\ NoScenario

\* The undo engine: what reaches the history through do(), and the frame.
Next ==
    \/ StrokeTo
    \/ Undo
    \/ Redo
    \/ Do
    \/ AddLayer
    \/ RemoveCurrentLayer
    \/ SetFrameEnabled({TRUE})
    \/ UpdateFrame({TRUE})

Spec == Init /\ [][Next]_vars

\* The setters of a given layer and undo/redo.
NextSetters ==
    \/ StrokeTo
    \/ Undo
    \/ Redo
    \/ SetLayerVisibility
    \/ SetLayerLocked

SpecSetters == InitLoaded /\ [][NextSetters]_vars

\* The setters of the current layer, with the selection switched in between.
NextCurrent ==
    \/ StrokeTo
    \/ SetCurrentPath
    \/ Undo
    \/ SetCurrentLayerOpacity
    \/ SetCurrentLayerMode

SpecCurrent == InitLoaded /\ [][NextCurrent]_vars

\* ------------------------------------------------- the round-trip scenario

\* What an observer sees of the document: the layer stack, the selection,
\* the layers' metadata and content, the frame and the resolution.
Observable ==
    [layers |-> layers, current |-> current,
     attr |-> [l \in {x \in Layers : InStack(x)} |-> attr[l]],
     frame |-> frame, frame_enabled |-> frame_enabled,
     xres |-> xres, yres |-> yres]

InitRoundTrip ==
    /\ NewDocument
    /\ phase = "do"
    /\ snap0 = <<Observable>>
    /\ snapN = <<>>
    /\ nDone = 0
    /\ nUndone = 0
    /\ nRedone = 0
    /\ nCalls = 0

\* A step of the first phase; nDone counts the commands do() has recorded.
Performed ==
    /\ phase = "do"
    /\ nDone' = Len(undo_stack')
    /\ UNCHANGED <<phase, snap0, snapN, nUndone, nRedone, nCalls>>

RTDo == DoStep /\ Performed
RTAddLayer == AddLayerStep /\ Performed
RTRemoveCurrentLayer == RemoveCurrentLayerStep /\ Performed
RTSetFrameEnabled == SetFrameEnabledStep({TRUE}) /\ Performed
RTStrokeTo == StrokeToStep /\ Performed

\* The N commands are done (none is pending as an unfinished stroke).
RTBeginUndo ==
    /\ phase = "do"
    /\ nDone > 0
    /\ stroke = <<>>
    /\ phase' = "undo"
    /\ snapN' = <<Observable>>
    /\ UNCHANGED <<layers, current, attr, frame, frame_enabled, xres, yres,
                   unsaved_painting_time, undo_stack, redo_stack, next_id,
                   stroke, events, disk, painting_only, tempdir, tmpfs, last,
                   snap0, nDone, nUndone, nRedone, nCalls>>

RTUndo ==
    /\ phase = "undo"
    /\ nUndone < nDone
    /\ nRedone = 0
    /\ UndoStep
    /\ nUndone' = nUndone + 1
    /\ UNCHANGED <<phase, snap0, snapN, nDone, nRedone, nCalls>>

RTRedo ==
    /\ phase = "undo"
    /\ nUndone = nDone
    /\ nRedone < nDone
    /\ RedoStep
    /\ nRedone' = nRedone + 1
    /\ UNCHANGED <<phase, snap0, snapN, nDone, nUndone, nCalls>>

NextRoundTrip ==
    \/ RTDo
    \/ RTAddLayer
    \/ RTRemoveCurrentLayer
    \/ RTSetFrameEnabled
    \/ RTStrokeTo
    \/ RTBeginUndo
    \/ RTUndo
    \/ RTRedo

SpecRoundTrip == InitRoundTrip /\ [][NextRoundTrip]_vars

\* ------------------------------------------------- the public entry points

ClearStep ==
    \E inf \in {{}, {1}} :
       Call("clear", Root, <<B2I(inf # {})>>, {}, clear(Doc, inf))

\* update_last_command(**kwargs) called directly: with a value of the kind
\* the most recent command (the stroke's, if one is unfinished) takes.
UpdateLastCommandStep ==
    LET top == Top(flush_updates(Doc, 0).undo_stack)
        vals == IF top = <<>> THEN {<<>>}
                ELSE IF top[1].kind = "SetFrameEnabled" THEN {<<0>>, <<1>>}
                ELSE {top[1].val}
    IN \E val \in vals :
          Call("update_last_command", Root, val, {},
               update_last_command(Doc, val))

GetLastCommandStep ==
    Call("get_last_command", Root, <<>>, {}, get_last_command(Doc))

SaveStep ==
    \E ext \in {"ora", "xcf"}, outcome \in {"ok", "IOError"} :
       Call("save", Root, <<>>, {ext, outcome}, save(Doc, ext, outcome))

\* What load() is given: the file's os.path.isfile and os.access answers,
\* its extension, how the loader ends, and whether the file declares a size
\* and a resolution.  A file that fails the checks is not looked into.
LoadInputs ==
    {<<isfile, FALSE, "ora", "ok", FALSE>> : isfile \in BoolSet}
       \cup {<<TRUE, TRUE, ext, outcome, declared>> :
                ext \in {"ora", "png", "xcf"}, outcome \in {"ok", "GError"},
                declared \in BoolSet}

\* load(filename) of a one-layer file.
LoadStep ==
    \E in \in LoadInputs :
       LET w == IF in[5] THEN N ELSE 0
           xr == IF in[5] THEN DEFAULT_RESOLUTION ELSE 0
       IN Call("load", Root, <<B2I(in[1]), B2I(in[2]), w, xr>>,
               {in[3], in[4]},
               load(Doc, in[1], in[2], in[3], in[4], {}, w, w, xr, xr,
                    <<<<0, 0, N, N>>>>))

FloodFillStep ==
    /\ current # Root
    /\ \E x \in {0, N} :
          Call("flood_fill", current, <<x, 0>>, {}, flood_fill(Doc, x, 0))

ClearCurrentLayerStep ==
    Call("clear_current_layer", current, <<>>, {}, clear_current_layer(Doc))

TrimCurrentLayerStep ==
    /\ current # Root
    /\ Call("trim_current_layer", current, <<>>, {}, trim_current_layer(Doc))

InvalidateAllStep ==
    Call("invalidate_all", Root, <<>>, {}, invalidate_all(Doc))

BrushsettingsChangedCbStep ==
    \E settings \in {{}, {"color_h"}, {"color_h", "opaque"}, {"eraser"},
                     {"hardness", "radius_by_random"}} :
       Call("brushsettings_changed_cb", Root, <<>>, settings,
            brushsettings_changed_cb(Doc, settings))

\* A step of a session of at most MaxCalls steps.
InSession ==
    /\ nCalls < MaxCalls
    /\ nCalls' = nCalls + 1
    /\ UNCHANGED <<phase, snap0, snapN, nDone, nUndone, nRedone>>

EStrokeTo == StrokeToStep /\ InSession
EClear == ClearStep /\ InSession
EUndo == UndoStep /\ InSession
ERedo == RedoStep /\ InSession
EDo == DoStep /\ InSession
EUpdateLastCommand == UpdateLastCommandStep /\ InSession
EGetLastCommand == GetLastCommandStep /\ InSession
ESave == SaveStep /\ InSession
ELoad == LoadStep /\ InSession
EFloodFill == FloodFillStep /\ InSession
EClearCurrentLayer == ClearCurrentLayerStep /\ InSession
ERemoveCurrentLayer == RemoveCurrentLayerStep /\ InSession
ETrimCurrentLayer == TrimCurrentLayerStep /\ InSession
ESetFrameEnabled == SetFrameEnabledStep(BoolSet) /\ InSession
EUpdateFrame == UpdateFrameStep(BoolSet) /\ InSession
EInvalidateAll == InvalidateAllStep /\ InSession
EBrushsettingsChangedCb == BrushsettingsChangedCbStep /\ InSession

\* Every public entry point, called at any moment of a painting session.
NextEntry ==
    \/ EStrokeTo
    \/ EClear
    \/ EUndo
    \/ ERedo
    \/ EDo
    \/ EUpdateLastCommand
    \/ EGetLastCommand
    \/ ESave
    \/ ELoad
    \/ EFloodFill
    \/ EClearCurrentLayer
    \/ ERemoveCurrentLayer
    \/ ETrimCurrentLayer
    \/ ESetFrameEnabled
    \/ EUpdateFrame
    \/ EInvalidateAll
    \/ EBrushsettingsChangedCb

SpecEntry == Init /\ [][NextEntry]_vars

\* ------------------------------------------- bounding boxes and flood fill

\* A query method returning v: the document is left as it is.
Returning(d, v) == [Touch(d, 0) EXCEPT !.ret = <<v>>]

\* get_full_redraw_bbox(), the layers in inf reporting an infinite bbox.
GetFullRedrawBboxStep ==
    \E inf \in SUBSET {l \in Layers : InStack(l)} :
       Call("get_full_redraw_bbox", Root,
            [i \in 1..Len(layers) |-> B2I(layers[i] \in inf)], {},
            Returning(Doc, get_full_redraw_bbox(Doc, inf)))

\* Seed coordinates of a fill: left of, inside and right of the tiles a
\* stroke can touch.
Seeds == {-1, 0, 2 * N + 5}

FloodFillSeededStep ==
    /\ current # Root
    /\ \E x \in Seeds, y \in {-1, 0} :
          Call("flood_fill", current, <<x, y>>, {}, flood_fill(Doc, x, y))

GetFullRedrawBbox == GetFullRedrawBboxStep /\ UNCHANGED scen
FloodFillSeeded == FloodFillSeededStep /\ UNCHANGED scen

\* Painting on a two-layer document and asking for its redraw area.
NextBbox ==
    \/ StrokeTo
    \/ SetCurrentPath
    \/ Undo
    \/ GetFullRedrawBbox

SpecBbox == InitLoaded /\ [][NextBbox]_vars

\* Painting and filling a new document, framed or not.
NextFill ==
    \/ StrokeTo
    \/ FloodFillSeeded
    \/ SetFrameEnabled({FALSE})
    \/ UpdateFrame({FALSE})

SpecFill == Init /\ [][NextFill]_vars

\* --------------------------------------------------- the container on disk

\* save("x.ora"); snap0 keeps the document a save that returned has written.
SaveOraStep ==
    \E outcome \in {"ok", "IOError"} :
       /\ Call("save", Root, <<>>, {"ora", outcome}, save(Doc, "ora", outcome))
       /\ snap0' = IF outcome = "ok" THEN <<Observable'>> ELSE snap0

\* load("x.ora") of the file the last save wrote.
LoadSavedStep ==
    /\ disk # <<>>
    /\ LET image == disk[1].image
       IN Call("load", Root,
               <<1, 1, image.w, image.h, image.xres, image.yres>>,
               {"ora", "ok"},
               load(Doc, TRUE, TRUE, "ora", "ok", {}, image.w, image.h,
                    image.xres, image.yres, image.stack))

SaveOra ==
    SaveOraStep /\ UNCHANGED <<phase, snapN, nDone, nUndone, nRedone, nCalls>>
LoadSaved == LoadSavedStep /\ UNCHANGED scen

\* The frames and resolutions of the documents saved: no frame, a frame at
\* the origin, a frame away from it, a frame two tiles wide; no resolution
\* or 300.
SavedFrames ==
    {<<0, 0, 0, 0>>, <<0, 0, N, N>>, <<N, 0, N, N>>, <<0, 0, 2 * N, N>>}
SavedResolutions == {<<>>, <<300>>}

\* A two-layer document a session has left with an empty history (after a
\* load): some frame, enabled or not, some resolution, each layer empty or
\* painted in one tile.
InitContainer ==
    /\ layers = <<1, 2>>
    /\ current = 1
    /\ \E b1 \in {<<0, 0, 0, 0>>, <<0, 0, N, N>>},
          b2 \in {<<0, 0, 0, 0>>, <<N, 0, N, N>>} :
          attr = [l \in Layers |->
                    [NewLayer EXCEPT !.bbox = IF l = 1 THEN b1 ELSE b2]]
    /\ frame \in SavedFrames
    /\ frame_enabled \in BoolSet
    /\ xres \in SavedResolutions
    /\ yres = xres
    /\ unsaved_painting_time = 0
    /\ undo_stack = <<>>
    /\ redo_stack = <<>>
    /\ next_id = 1
    /\ stroke = <<>>
    /\ events = <<>>
    /\ disk = <<>>
    /\ painting_only = FALSE
    /\ tempdir = <<1>>
    /\ tmpfs = [dirs |-> {1}, busy |-> FALSE, nested |-> FALSE]
    /\ last = NoCall
    /\ NoScenario

\* Painting, saving to OpenRaster and loading the saved file.
NextContainer ==
    \/ StrokeTo
    \/ SaveOra
    \/ LoadSaved

SpecContainer == InitContainer /\ [][NextContainer]_vars

\* --------------------------------------------------- loading any container

\* What a stack.xml can declare: a size (absent, negative, one or two tiles
\* wide), each resolution attribute absent or zero, negative, or 300; and
\* the data bboxes of the layers it lists.
DeclaredSizes == {<<0, 0>>, <<-1, N>>, <<N, N>>, <<2 * N, N>>}
DeclaredResolutions == {-1, 0, 300}
DeclaredStacks ==
    {<<<<0, 0, 0, 0>>>>, <<<<0, 0, N, N>>>>, <<<<N, 0, N, N>>>>,
     <<<<0, 0, N, N>>, <<N, 0, N, N>>>>}

\* load("x.ora") of an OpenRaster file.
LoadOraStep ==
    \E size \in DeclaredSizes, xr \in DeclaredResolutions,
       yr \in DeclaredResolutions, lbs \in DeclaredStacks :
          Call("load", Root, <<1, 1, size[1], size[2], xr, yr>>,
               {"ora", "ok"},
               load(Doc, TRUE, TRUE, "ora", "ok", {}, size[1], size[2],
                    xr, yr, lbs))

LoadOra == LoadOraStep /\ UNCHANGED scen

\* Loading OpenRaster files into documents of any frame and resolution.
NextLoad ==
    \/ StrokeTo
    \/ LoadOra

SpecLoad == InitContainer /\ [][NextLoad]_vars

\* ------------------------------------------ saves and loads that may fail

\* save(filename) of any extension, the save method ending in any way.
SaveAnyStep ==
    \E ext \in {"ora", "png", "xcf"},
       outcome \in {"ok", "GError", "IOError", "OSError"} :
          Call("save", Root, <<>>, {ext, outcome}, save(Doc, ext, outcome))

\* The files load() meets: missing, unreadable, or readable with some
\* extension, the loader ending in some way; an OpenRaster file lists no
\* layer, one or two, the others hold one image.
LoadAnyInputs ==
    {<<isfile, FALSE, "ora", "ok", 1>> : isfile \in BoolSet}
       \cup {<<TRUE, TRUE, ext, outcome, 1>> :
                ext \in {"ora", "png", "xcf"},
                outcome \in {"ok", "GError", "IOError", "KeyError"}}
       \cup {<<TRUE, TRUE, "ora", "ok", n>> : n \in {0, 2}}

\* load(filename) of any file.
LoadAnyStep ==
    \E in \in LoadAnyInputs, w \in {0, N} :
       LET lbs == SubSeq(<<<<0, 0, N, N>>, <<N, 0, N, N>>>>, 1, in[5])
       IN Call("load", Root, <<B2I(in[1]), B2I(in[2]), w, w, 0, 0, in[5]>>,
               {in[3], in[4]},
               load(Doc, in[1], in[2], in[3], in[4], {}, w, w, 0, 0, lbs))

SaveAny == SaveAnyStep /\ InSession
LoadAny == LoadAnyStep /\ InSession

\* A session of painting, undoing, saving and loading, the files and the
\* codecs failing or not.
NextSaveLoad ==
    \/ EStrokeTo
    \/ EUndo
    \/ SaveAny
    \/ LoadAny

SpecSaveLoad == Init /\ [][NextSaveLoad]_vars

\* ------------------------------------------------------------ the history

UpdateLastCommand == UpdateLastCommandStep /\ UNCHANGED scen
Clear == ClearStep /\ UNCHANGED scen

\* Any interleaving of do(), undo(), redo(), update_last_command() and
\* clear(), with strokes in between.
NextHistory ==
    \/ StrokeTo
    \/ Do
    \/ Undo
    \/ Redo
    \/ UpdateLastCommand
    \/ Clear

SpecHistory == Init /\ [][NextHistory]_vars

\* ------------------------------------------------------------ resolution

\* What set_resolution() is given: None, or a number (in halves) that is
\* negative, zero, a fraction below 1, 1, 1.5, 72 or 300.5.
ResolutionArgs == {<<>>} \cup {<<h>> : h \in {-3, 0, 1, 2, 3, 144, 601}}

SetResolutionStep ==
    \E res \in ResolutionArgs :
       Call("set_resolution", Root, res, {}, set_resolution(Doc, res))

GetResolutionStep ==
    Call("get_resolution", Root, <<>>, {},
         Returning(Doc, get_resolution(Doc)))

SetResolution == SetResolutionStep /\ UNCHANGED scen
GetResolution == GetResolutionStep /\ UNCHANGED scen

\* Setting and asking for the resolution, clear() and loads of OpenRaster
\* files declaring any resolution.
NextResolution ==
    \/ SetResolution
    \/ GetResolution
    \/ Clear
    \/ LoadOra

SpecResolution == Init /\ [][NextResolution]_vars

\* ------------------------------------------------- the working directory

CleanupStep == Call("cleanup", Root, <<>>, {}, cleanup(Doc))

\* What happens to the temporary directories without a call of a method: the
\* removal of the working directory starts or stops failing (a file in it is
\* held open, the directory has been removed from outside), a subdirectory
\* is made in it.
FilesystemStep ==
    /\ \E b \in BoolSet, n \in BoolSet :
          /\ n => tempdir # <<>>
          /\ tmpfs' = [tmpfs EXCEPT !.busy = b, !.nested = n]
          /\ tmpfs' # tmpfs
    /\ last' = [last EXCEPT !.then = "filesystem"]
    /\ UNCHANGED <<layers, current, attr, frame, frame_enabled, xres, yres,
                   unsaved_painting_time, undo_stack, redo_stack, next_id,
                   stroke, events, disk, painting_only, tempdir>>

Cleanup == CleanupStep /\ InSession
Filesystem == FilesystemStep /\ UNCHANGED scen

\* A document after construction, painting-only or not (__init__ ends with
\* clear(), which makes the working directory of a document that is not).
InitTempdir ==
    /\ layers = <<1>>
    /\ current = 1
    /\ attr = [l \in Layers |-> NewLayer]
    /\ frame = <<0, 0, 0, 0>>
    /\ frame_enabled = FALSE
    /\ xres = <<>>
    /\ yres = <<>>
    /\ unsaved_painting_time = 0
    /\ undo_stack = <<>>
    /\ redo_stack = <<>>
    /\ next_id = 1
    /\ stroke = <<>>
    /\ events = <<>>
    /\ disk = <<>>
    /\ painting_only \in BoolSet
    /\ tempdir = IF painting_only THEN <<>> ELSE <<1>>
    /\ tmpfs = [dirs |-> IF painting_only THEN {} ELSE {1},
                busy |-> FALSE, nested |-> FALSE]
    /\ last = NoCall
    /\ NoScenario

\* A session of painting, clear() and cleanup() on either kind of document.
NextTempdir ==
    \/ EStrokeTo
    \/ EClear
    \/ Cleanup
    \/ Filesystem

SpecTempdir == InitTempdir /\ [][NextTempdir]_vars

\* ------------------------------------------------------------------ claims

\* The state right after a call of method op.
After(op) == last.op = op /\ last.then = ""

Ids(stack) == [i \in 1..Len(stack) |-> stack[i].id]

\* C1: from a new document, N commands done through do(), then N calls of
\* undo(), give back the initial document (layer stack, selection, layers'
\* metadata and content, frame, frame-enabled, resolution), and N calls of
\* redo() after that give the document the N commands had reached.
C1_RoundTrip ==
    /\ (phase = "undo" /\ nUndone = nDone /\ nRedone = 0) =>
          Observable = snap0[1]
    /\ (phase = "undo" /\ nRedone = nDone) => Observable = snapN[1]

\* N >= 2 commands, one of them automatic, changed the document and were
\* undone and redone.
C1_Witness ==
    /\ phase = "undo"
    /\ nDone >= 2
    /\ nRedone = nDone
    /\ Observable # snap0[1]
    /\ \E i \in 1..Len(undo_stack) : undo_stack[i].automatic_undo

\* C2: after a do() the redo stack is empty, and a redo() that follows the
\* do() returns None and changes neither the document nor the history.
C2_DoClearsRedo ==
    [][/\ After("do")' => redo_stack' = <<>>
       /\ (After("do") /\ After("redo")') =>
             /\ last'.ret = <<>>
             /\ Observable' = Observable
             /\ Ids(undo_stack') = Ids(undo_stack)
             /\ redo_stack' = <<>>]_vars

\* A do() was called with commands waiting on the redo stack (after undo()).
C2_Witness == After("do") /\ last.redo0 > 0 /\ redo_stack = <<>>

\* The entries undo() found on the redo stack, and redo() on the undo stack,
\* once the flush at its start had committed an unfinished stroke.
RedoBase == IF last.pending0 THEN 0 ELSE last.redo0
UndoBase == IF last.pending0 THEN last.len0 + 1 ELSE last.len0

\* What a call of undo()/redo() moved onto stack "to" above its first "base"
\* entries is a run of automatic commands followed by the command returned;
\* None is returned only when the stack it took them "from" is exhausted.
Skipped(from, to, base) ==
    /\ last.ret # <<>> =>
          /\ ~last.ret[1].automatic_undo
          /\ Len(to) > base
          /\ to[Len(to)].id = last.ret[1].id
    /\ last.ret = <<>> => from = <<>>
    /\ \A i \in (base + 1)..Len(to) :
          i < Len(to) \/ last.ret = <<>> => to[i].automatic_undo

\* C3: undo() and redo() skip automatic commands: each call moves entries
\* until it has moved a non-automatic one, which it returns, or the stack is
\* exhausted, and then it returns None; it never returns an automatic one.
C3_AutomaticSkipped ==
    /\ After("undo") => Skipped(undo_stack, redo_stack, RedoBase)
    /\ After("redo") => Skipped(redo_stack, undo_stack, UndoBase)

\* An undo() skipped an automatic command and returned the one below it.
C3_Witness ==
    /\ After("undo")
    /\ last.ret # <<>>
    /\ Len(redo_stack) >= RedoBase + 2
    /\ redo_stack[Len(redo_stack) - 1].automatic_undo


\* The setters that act on a given layer or on the current one, and the
\* user's frame update.
MutatingSetters ==
    {"set_layer_visibility", "set_layer_locked", "set_current_layer_opacity",
     "set_current_layer_mode", "update_frame"}

\* C4 (as claimed): when one of the setters changes the document while the
\* redo stack is not empty, the redo stack is empty afterwards.
C4_SettersClearRedo ==
    [][(/\ last'.then = ""
        /\ last'.op \in MutatingSetters
        /\ redo_stack # <<>>
        /\ Observable' # Observable) => redo_stack' = <<>>]_vars

\* A layer whose opacity set_current_layer_opacity() sets: a real layer that
\* is not in pass-through mode.
HasOpacity(l) == l # Root /\ attr[l].mode # PASS_THROUGH_MODE

\* A step that is a call of method op right after a call of the same method,
\* with nothing recorded in between (the selection may have been switched).
SecondCall(op) ==
    /\ last.op = op
    /\ last.then \in {"", "switch"}
    /\ last'.op = op
    /\ last'.then = ""

IsTop(stack, kind, layer, val) ==
    /\ stack # <<>>
    /\ stack[Len(stack)].kind = kind
    /\ stack[Len(stack)].layer = layer
    /\ stack[Len(stack)].val = val

\* C5 (as claimed): two consecutive set_current_layer_opacity() calls on the
\* same current layer leave exactly one new entry on the undo stack; with
\* the current layer switched in between they leave two SetLayerOpacity
\* entries.
C5_OneNewEntry ==
    [][(SecondCall("set_current_layer_opacity") /\ ~last.pending0) =>
          IF last'.layer = last.layer
          THEN Len(undo_stack') = last.len0 + 1
          ELSE /\ Len(undo_stack') = last.len0 + 2
               /\ IsTop(undo_stack', "SetLayerOpacity", last'.layer, last'.val)
               /\ IsTop(undo_stack, "SetLayerOpacity", last.layer, last.val)
      ]_vars

\* C5 (amended): of two consecutive set_current_layer_opacity() calls on the
\* same current layer, a real layer not in pass-through mode, the second
\* pushes nothing and updates in place the top entry, the SetLayerOpacity of
\* that layer in which the first call is recorded; that entry is a new one
\* unless the first call itself updated a SetLayerOpacity of that layer.
\* With the current layer switched to another such layer in between, the
\* second call pushes a second SetLayerOpacity.  For the root stack or a
\* pass-through layer the call records nothing.
C5_OpacityCoalesces ==
    [][SecondCall("set_current_layer_opacity") =>
          LET l1 == last.layer
              l2 == last'.layer
              n == Len(undo_stack)
          IN /\ (l1 = l2 /\ HasOpacity(l2)) =>
                   /\ Len(undo_stack') = n
                   /\ IsTop(undo_stack, "SetLayerOpacity", l1, last.val)
                   /\ IsTop(undo_stack', "SetLayerOpacity", l2, last'.val)
                   /\ undo_stack'[n].id = undo_stack[n].id
                   /\ ~last.pending0 =>
                         n = IF last.top0 = <<"SetLayerOpacity", l1>>
                             THEN last.len0 ELSE last.len0 + 1
             /\ (l1 # l2 /\ HasOpacity(l1) /\ HasOpacity(l2)) =>
                   /\ Len(undo_stack') = n + 1
                   /\ IsTop(undo_stack, "SetLayerOpacity", l1, last.val)
                   /\ IsTop(undo_stack', "SetLayerOpacity", l2, last'.val)
                   /\ undo_stack'[n] = undo_stack[n]
             /\ ~HasOpacity(l2) => Ids(undo_stack') = Ids(undo_stack)
      ]_vars

\* A second set_current_layer_opacity() call updated the entry of the first.
C5_Witness ==
    /\ After("set_current_layer_opacity")
    /\ last.top0 = <<"SetLayerOpacity", last.layer>>
    /\ Len(undo_stack) = last.len0
    /\ last.ret # <<>>
    /\ IsTop(undo_stack, "SetLayerOpacity", last.layer, last.val)
    /\ undo_stack[Len(undo_stack)].old # last.val

\* The command kind of a setter of a given layer.
KindOf(op) ==
    IF op = "set_layer_visibility" THEN "SetLayerVisibility"
    ELSE "SetLayerLocked"

LayerSetters == {"set_layer_visibility", "set_layer_locked"}

\* The top entry updated in place: nothing pushed, the value replaced.
UpdatedInPlace(kind) ==
    /\ Ids(undo_stack') = Ids(undo_stack)
    /\ IsTop(undo_stack', kind, last'.layer, last'.val)

\* One new command of the kind pushed on top of the first n entries.
PushedOn(n, kind) ==
    /\ Len(undo_stack') = n + 1
    /\ IsTop(undo_stack', kind, last'.layer, last'.val)
    /\ undo_stack'[n + 1].id \notin {undo_stack[i].id : i \in 1..Len(undo_stack)}

\* C6 (as claimed): set_layer_visibility() and set_layer_locked() update the
\* most recent undo-stack entry in place if and only if it is a command of
\* the same kind for the identical layer; in every other case exactly one
\* new command is pushed.
C6_StrictCoalescing ==
    [][(last'.then = "" /\ last'.op \in LayerSetters) =>
          LET kind == KindOf(last'.op)
              same == /\ undo_stack # <<>>
                      /\ undo_stack[Len(undo_stack)].kind = kind
                      /\ undo_stack[Len(undo_stack)].layer = last'.layer
          IN IF same THEN UpdatedInPlace(kind)
             ELSE PushedOn(Len(undo_stack), kind)
      ]_vars

\* C6 (amended): for a layer other than the root stack, and with the most
\* recent entry taken once the call's flush has committed an unfinished
\* stroke (as a Brushwork entry), the setters update that entry in place if
\* and only if it is a command of the same kind for the identical layer, and
\* otherwise push exactly one new command; for the root stack itself they
\* do nothing.
C6_StrictCoalescingOfLayers ==
    [][(last'.then = "" /\ last'.op \in LayerSetters) =>
          LET kind == KindOf(last'.op)
              n == Len(undo_stack)
              same == /\ undo_stack # <<>>
                      /\ undo_stack[n].kind = kind
                      /\ undo_stack[n].layer = last'.layer
          IN IF last'.layer = Root
             THEN /\ undo_stack' = undo_stack
                  /\ Observable' = Observable
                  /\ stroke' = stroke
             ELSE IF stroke # <<>>
             THEN /\ PushedOn(n + 1, kind)
                  /\ undo_stack'[n + 1].kind = "Brushwork"
             ELSE IF same THEN UpdatedInPlace(kind)
             ELSE PushedOn(n, kind)
      ]_vars

\* A setter found a command of its kind for another layer holding the same
\* value on top, and pushed a new command.
C6_Witness ==
    /\ last.then = ""
    /\ last.op \in LayerSetters
    /\ last.layer # Root
    /\ last.top0 # <<>>
    /\ last.top0[1] = KindOf(last.op)
    /\ last.top0[2] # last.layer
    /\ Len(undo_stack) = last.len0 + 1
    /\ undo_stack[Len(undo_stack) - 1].val = last.val

\* C7 (as claimed): two consecutive set_current_layer_mode() calls on the
\* same current layer produce exactly one undo-stack entry, the second call
\* updating the SetLayerMode command of the first in place.
C7_ModeCoalesces ==
    [][(SecondCall("set_current_layer_mode") /\ last'.layer = last.layer
                                             /\ last.then = ""
                                             /\ ~last.pending0) =>
          /\ Len(undo_stack') = Len(undo_stack)
          /\ Len(undo_stack') = last.len0 + 1]_vars


\* The methods that have to start with the flush.
EntryPoints ==
    {"clear", "undo", "redo", "do", "update_last_command", "get_last_command",
     "save", "load", "flood_fill", "clear_current_layer",
     "remove_current_layer", "trim_current_layer", "set_frame_enabled",
     "update_frame"}

\* C8 (as claimed): in a call of an entry point, flush_updates is raised
\* before the first read or write of committed state.
C8_FlushBarrier ==
    (last.then = "" /\ last.op \in EntryPoints) =>
       \A i \in 1..Len(events) :
          events[i].ev = "touch" =>
             \E j \in 1..(i - 1) : events[j].ev = "flush_updates"

\* How many times the last call itself raised an event (the events raised by
\* the observers of its flush, at depth 1, not counted).
Raised(ev) ==
    Cardinality({i \in 1..Len(events) :
                    events[i].ev = ev /\ events[i].depth = 0})

\* C9: brushsettings_changed_cb() raises flush_updates not at all when every
\* changed setting is a lightweight one, leaving an unfinished stroke
\* unfinished and the history as it was, and raises it exactly once itself
\* when some changed setting is not lightweight, which commits an unfinished
\* stroke.
C9_LightweightNoFlush ==
    After("brushsettings_changed_cb") =>
       IF last.settings \subseteq lightweight_settings
       THEN /\ Raised("flush_updates") = 0
            /\ events = <<>>
            /\ Len(undo_stack) = last.len0
            /\ last.pending0 <=> stroke # <<>>
       ELSE /\ Raised("flush_updates") = 1
            /\ events[1].ev = "flush_updates"
            /\ stroke = <<>>
            /\ Len(undo_stack) = last.len0 + (IF last.pending0 THEN 1 ELSE 0)

\* A change of a lightweight and another setting in mid-stroke committed the
\* stroke.
C9_Witness ==
    /\ After("brushsettings_changed_cb")
    /\ last.settings \cap lightweight_settings # {}
    /\ last.settings \ lightweight_settings # {}
    /\ last.pending0
    /\ stroke = <<>>
    /\ IsTop(undo_stack, "Brushwork", current, attr[current].bbox)

\* C10 (as claimed): invalidate_all() and clear() raise canvas_area_modified
\* last, with the payload (0, 0, 0, 0).
C10_FullRedrawSentinel ==
    (After("invalidate_all") \/ After("clear")) =>
       /\ events # <<>>
       /\ events[Len(events)].ev = "canvas_area_modified"
       /\ events[Len(events)].arg = <<0, 0, 0, 0>>


\* C11 (as claimed): when some layer reports an infinite full-redraw bbox,
\* get_full_redraw_bbox() returns (0, 0, 0, 0), wherever that layer is in the
\* stack and whatever the other layers report.
C11_InfiniteAbsorbing ==
    (After("get_full_redraw_bbox") /\ \E i \in 1..Len(last.val) :
                                         last.val[i] = 1) =>
       last.ret = <<<<0, 0, 0, 0>>>>


\* A step that is a call of flood_fill().
FillCall == last'.op = "flood_fill" /\ last'.then = ""

\* The limiting rectangle the FloodFill command of that call was given.
FillBound == undo_stack'[Len(undo_stack')].arg

Contains(r, x, y) ==
    /\ r[1] <= x
    /\ x < r[1] + r[3]
    /\ r[2] <= y
    /\ y < r[2] + r[4]

Min(a, b) == IF a < b THEN a ELSE b
Max(a, b) == IF a > b THEN a ELSE b

\* C12: with the frame disabled, a fill seeded at (x, y) of a document whose
\* data bbox is empty is limited to the one tile (N*floor(x/N),
\* N*floor(y/N), N, N), negative seeds included; when the data bbox is not
\* empty the limit is the smallest rectangle holding the data bbox and the
\* seed, so that the fill after a fill is limited to a rectangle holding
\* both seeds.
C12_FillBoundTiering ==
    [][(FillCall /\ ~frame_enabled) =>
          LET x == last'.val[1]
              y == last'.val[2]
              b == FillBound
              data == get_bbox(Doc)
          IN IF data[3] = 0 \/ data[4] = 0
             THEN /\ b[3] = N /\ b[4] = N
                  /\ b[1] % N = 0 /\ b[2] % N = 0
                  /\ Contains(b, x, y)
             ELSE /\ b[1] = Min(data[1], x)
                  /\ b[2] = Min(data[2], y)
                  /\ b[1] + b[3] - 1 = Max(data[1] + data[3] - 1, x)
                  /\ b[2] + b[4] - 1 = Max(data[2] + data[4] - 1, y)
                  /\ (last.op = "flood_fill" /\ last.then = "") =>
                        Contains(b, last.val[1], last.val[2])
      ]_vars

\* A fill seeded at negative coordinates got the tile (-N, -N, N, N), and a
\* second fill seeded outside that tile a larger rectangle.
C12_Witness ==
    /\ After("flood_fill")
    /\ ~frame_enabled
    /\ Len(undo_stack) = 2
    /\ undo_stack[1].kind = "FloodFill"
    /\ undo_stack[1].arg = <<-N, -N, N, N>>
    /\ undo_stack[2].kind = "FloodFill"
    /\ undo_stack[2].arg[3] > N
    /\ ~Contains(undo_stack[1].arg, last.val[1], last.val[2])

\* C13 (as claimed): with the frame enabled, the limiting rectangle of a
\* fill is the frame rectangle, whatever the frame and the seed.
C13_FillInsideFrame ==
    [][(FillCall /\ frame_enabled) => FillBound = frame]_vars


\* C14 (as claimed): a document saved by save_ora with a frame that is not
\* empty, enabled, and a resolution set comes back from load_ora of that file with the same
\* resolution, the same frame rectangle, the frame enabled and as many
\* layers.
C14_ContainerRoundTrip ==
    (/\ After("load")
     /\ last.raised = ""
     /\ snap0 # <<>>
     /\ snap0[1].frame_enabled
     /\ ~Rect_empty(snap0[1].frame)
     /\ snap0[1].xres # <<>>) =>
       /\ xres = snap0[1].xres
       /\ yres = snap0[1].yres
       /\ frame = snap0[1].frame
       /\ frame_enabled
       /\ Len(layers) = Len(snap0[1].layers)


\* C15: in every archive save_ora has written, mimetype is the first entry,
\* and the only one of that name.
C15_MimetypeFirst ==
    disk # <<>> =>
       LET entries == disk[1].entries
       IN /\ entries[1] = "mimetype"
          /\ \A i \in 2..Len(entries) : entries[i] # "mimetype"

\* A save of the two-layer document returned, having written mimetype, the
\* layers' data, the two images and stack.xml.
C15_Witness ==
    /\ After("save")
    /\ last.raised = ""
    /\ disk # <<>>
    /\ Len(disk[1].entries) = 6
    /\ \A n \in {"mimetype", "layer", "stack.xml", "mergedimage.png",
                 "Thumbnails/thumbnail.png"} :
          \E i \in 1..6 : disk[1].entries[i] = n

\* C16 (as claimed): the entries of an archive are written in the order
\* mimetype, stack.xml, the layers' data, Thumbnails/thumbnail.png,
\* mergedimage.png.
C16_DocumentedOrder ==
    disk # <<>> =>
       disk[1].entries =
          <<"mimetype", "stack.xml">>
             \o [i \in 1..Len(disk[1].image.stack) |-> "layer"]
             \o <<"Thumbnails/thumbnail.png", "mergedimage.png">>


\* The declared value of a size or resolution attribute, as load_ora reads
\* it: absent, zero and negative all give 0.
Declared(v) == IF v > 0 THEN v ELSE 0

\* C17: after load_ora the stored resolutions are the declared ones when
\* both attributes are present and positive, and are both unset otherwise
\* (one attribute only, a zero, a negative value), get_resolution() then
\* returning the default 72, whatever the document held before.
C17_ResolutionPartialSpec ==
    (After("load") /\ last.raised = "") =>
       IF last.val[5] > 0 /\ last.val[6] > 0
       THEN /\ xres = <<last.val[5]>>
            /\ yres = <<last.val[6]>>
            /\ get_resolution(Doc) = Max(last.val[5], last.val[6])
       ELSE /\ xres = <<>>
            /\ yres = <<>>
            /\ get_resolution(Doc) = DEFAULT_RESOLUTION

\* A file declaring xres only was loaded: the resolution is the default.
C17_Witness ==
    /\ After("load")
    /\ last.raised = ""
    /\ last.val[5] = 300
    /\ last.val[6] = 0
    /\ xres = <<>>
    /\ get_resolution(Doc) = 72

\* The data bbox of the document: the smallest rectangle holding every
\* layer's data.
DataBbox == get_bbox(Doc)

\* C18 (as claimed): after load_ora the frame is (0, 0, w, h) for the
\* declared w and h, and the frame is enabled if and only if the declared
\* size differs from the size of the data bbox and neither the declared
\* rectangle nor the data bbox is empty.
C18_FrameBySize ==
    (After("load") /\ last.raised = "") =>
       LET w == Declared(last.val[3])
           h == Declared(last.val[4])
       IN /\ frame = <<0, 0, w, h>>
          /\ frame_enabled <=>
                /\ <<w, h>> # <<DataBbox[3], DataBbox[4]>>
                /\ ~Rect_empty(<<0, 0, w, h>>)
                /\ ~Rect_empty(DataBbox)

\* C18 (amended): after load_ora the frame is (0, 0, w, h) for the declared
\* w and h (0 for an absent or negative one), and the frame is enabled if
\* and only if the declared rectangle (0, 0, w, h) differs from the data
\* bbox, in origin or in size, and neither of the two is empty.
C18_FrameByRectangle ==
    (After("load") /\ last.raised = "") =>
       LET w == Declared(last.val[3])
           h == Declared(last.val[4])
       IN /\ frame = <<0, 0, w, h>>
          /\ frame_enabled <=>
                /\ <<0, 0, w, h>> # DataBbox
                /\ ~Rect_empty(<<0, 0, w, h>>)
                /\ ~Rect_empty(DataBbox)

\* A file declaring one tile, with its data in the next tile, was loaded:
\* the sizes are equal and the frame is enabled.
C18_Witness ==
    /\ After("load")
    /\ last.raised = ""
    /\ frame = <<0, 0, N, N>>
    /\ DataBbox = <<N, 0, N, N>>
    /\ frame_enabled


\* The document's state left as it was by a step.
DocumentUntouched ==
    UNCHANGED <<layers, current, attr, frame, frame_enabled, xres, yres,
                undo_stack, redo_stack, unsaved_painting_time>>

\* C19: load() of a path that is not a file raises SaveLoadError with the
\* layer stack, the frame, the resolution, the undo and redo stacks and
\* unsaved_painting_time as they were, an unfinished stroke still
\* unfinished, and no event raised and no loader called.
C19_MissingFileUntouched ==
    [][(last'.op = "load" /\ last'.then = "" /\ last'.val[1] = 0) =>
          /\ last'.raised = "SaveLoadError"
          /\ DocumentUntouched
          /\ UNCHANGED <<stroke, next_id, disk>>
          /\ events' = <<>>]_vars

\* load() of a missing file in mid-stroke, with a command in the history.
C19_Witness ==
    /\ After("load")
    /\ last.val[1] = 0
    /\ last.raised = "SaveLoadError"
    /\ last.pending0
    /\ stroke # <<>>
    /\ undo_stack # <<>>
    /\ events = <<>>

\* A step that is a call of save() or load() with a file name whose
\* extension has no save_<ext> / load_<ext> method.
UnsupportedCall(op) ==
    /\ last'.op = op
    /\ last'.then = ""
    /\ "xcf" \in last'.settings

\* C20 (as claimed): save() and load() of an unknown extension raise
\* SaveLoadError and leave the layer stack, the frame, the resolution, the
\* undo and redo stacks and unsaved_painting_time as they were.
C20_UnsupportedUntouched ==
    [][(UnsupportedCall("save") \/ UnsupportedCall("load")) =>
          /\ last'.raised = "SaveLoadError"
          /\ DocumentUntouched]_vars

\* C20 (amended): load() of an unknown extension raises SaveLoadError and
\* leaves the document as it was; save() of one raises SaveLoadError after
\* its flush, so that an unfinished stroke has been committed (one
\* Brushwork entry more on the undo stack, the redo stack emptied) and
\* everything else is as it was.
C20_UnsupportedAfterFlush ==
    [][/\ UnsupportedCall("load") =>
             /\ last'.raised = "SaveLoadError"
             /\ DocumentUntouched
             /\ UNCHANGED stroke
             /\ events' = <<>>
       /\ UnsupportedCall("save") =>
             /\ last'.raised = "SaveLoadError"
             /\ UNCHANGED <<layers, current, attr, frame, frame_enabled,
                            xres, yres, unsaved_painting_time, disk>>
             /\ stroke' = <<>>
             /\ IF stroke = <<>>
                THEN UNCHANGED <<undo_stack, redo_stack>>
                ELSE /\ Len(undo_stack') = Len(undo_stack) + 1
                     /\ SubSeq(undo_stack', 1, Len(undo_stack)) = undo_stack
                     /\ undo_stack'[Len(undo_stack')].kind = "Brushwork"
                     /\ redo_stack' = <<>>
      ]_vars

\* save() of an unknown extension in mid-stroke: the stroke is committed and
\* the painting still counts as unsaved.
C20_Witness ==
    /\ After("save")
    /\ "xcf" \in last.settings
    /\ last.raised = "SaveLoadError"
    /\ last.pending0
    /\ stroke = <<>>
    /\ Len(undo_stack) = last.len0 + 1
    /\ unsaved_painting_time # 0


\* The last call was a save() or load() whose save_<ext> / load_<ext> method
\* was called and failed: a call it made raised, or (load_ora) the archive
\* listed no layer.
HandlerFailed ==
    /\ After("save") \/ After("load")
    /\ last.settings \cap {"xcf"} = {}
    /\ last.op = "load" => (last.val[1] = 1 /\ last.val[2] = 1)
    /\ \/ last.settings \cap (Outcomes \ {"ok"}) # {}
       \/ last.op = "load" /\ "ora" \in last.settings /\ last.val[7] = 0

\* C21 (as claimed): save() and load() raise nothing but SaveLoadError, and
\* raise it for every failure inside the save or load method, an archive
\* without stack.xml and an archive that lists no layer included.
C21_SingleErrorKind ==
    /\ (After("save") \/ After("load")) =>
          last.raised \in {"", "SaveLoadError"}
    /\ HandlerFailed => last.raised = "SaveLoadError"


\* save_ora() was called by the last call: a save() of an OpenRaster file.
SaveOraCalled == After("save") /\ "ora" \in last.settings

\* The scratch events of the last call that follow its i-th event.
Later(i, what, name) ==
    \E j \in (i + 1)..Len(events) :
       events[j].ev = what /\ events[j].arg = <<name>>

\* C22 (as claimed): when save_ora() has returned or raised, the scratch
\* directory it made has been removed, and so has every file it wrote into
\* that directory.
C22_ScratchRemoved ==
    SaveOraCalled =>
       \A i \in 1..Len(events) :
          /\ events[i].ev = "mkdtemp" => Later(i, "os.rmdir", "")
          /\ events[i].ev \in {"lib.pixbuf.save", "save_as_png"} =>
                Later(i, "os.remove", events[i].arg[1])


\* C23: after clear() has returned the layer stack holds one blank layer,
\* which is the current one, the undo and redo stacks are empty, no stroke
\* is unfinished, the frame is (0, 0, 0, 0) and disabled, the resolution is
\* unset and unsaved_painting_time is 0, whatever the document was before.
C23_ClearResets ==
    (After("clear") /\ last.raised = "") =>
       /\ Len(layers) = 1
       /\ current = layers[1]
       /\ attr[layers[1]] = NewLayer
       /\ undo_stack = <<>>
       /\ redo_stack = <<>>
       /\ stroke = <<>>
       /\ frame = <<0, 0, 0, 0>>
       /\ ~frame_enabled
       /\ xres = <<>>
       /\ yres = <<>>
       /\ unsaved_painting_time = 0

\* clear() was called in mid-stroke on a document with a command in its
\* history and has returned.
C23_Witness ==
    /\ After("clear")
    /\ last.raised = ""
    /\ last.pending0
    /\ last.len0 > 0
    /\ undo_stack = <<>>
    /\ Len(layers) = 1


\* A step that is a call of method op.
Calling(op) == last'.op = op /\ last'.then = ""

\* C24 (as claimed): a painting-only document never has a tempdir; any other
\* document keeps one until cleanup() is called and has none after that
\* call; clear() leaves it with one, the old directory removed, and no more
\* than one working directory exists at any time.
C24_TempdirLifecycle ==
    [][/\ painting_only => tempdir' = <<>>
       /\ (~painting_only /\ tempdir # <<>> /\ ~Calling("cleanup")) =>
             tempdir' # <<>>
       /\ (~painting_only /\ Calling("clear")) =>
             /\ tempdir' # <<>>
             /\ tmpfs'.dirs = {tempdir'[1]}
       /\ Calling("cleanup") => tempdir' = <<>>
       /\ Cardinality(tmpfs'.dirs) <= 1
      ]_vars


\* No two entries of a stack are the same Command object.
NoDuplicate(stack) ==
    \A i \in 1..Len(stack), j \in 1..Len(stack) :
       stack[i].id = stack[j].id => i = j

\* C25: in every state reached by do(), undo(), redo(),
\* update_last_command() and clear(), no command is on the undo stack and
\* on the redo stack at once, and none is twice on one stack.
C25_StacksDisjoint ==
    /\ \A i \in 1..Len(undo_stack), j \in 1..Len(redo_stack) :
          undo_stack[i].id # redo_stack[j].id
    /\ NoDuplicate(undo_stack)
    /\ NoDuplicate(redo_stack)

\* update_last_command() has updated the one command left on the undo stack
\* after an undo() that moved another to the redo stack.
C25_Witness ==
    /\ After("update_last_command")
    /\ last.ret # <<>>
    /\ undo_stack # <<>>
    /\ redo_stack # <<>>


\* The positions, in the order of the last call's events, of the event ev
\* raised at a call depth.
Positions(ev, depth) ==
    {i \in 1..Len(events) : events[i].ev = ev /\ events[i].depth = depth}

\* C26: a do(cmd) called in mid-stroke raises flush_updates; the observer's
\* do(stroke_cmd) raises the nested flush, which records nothing, and
\* applies and records the stroke's command; then cmd is applied and
\* recorded: the undo stack has grown by exactly the stroke's command and,
\* on top of it, cmd, no stroke is unfinished and the call has returned.
C26_FlushOrdering ==
    [][(Calling("do") /\ stroke # <<>>) =>
          /\ last'.raised = ""
          /\ stroke' = <<>>
          /\ Len(undo_stack') = Len(undo_stack) + 2
          /\ SubSeq(undo_stack', 1, Len(undo_stack)) = undo_stack
          /\ undo_stack'[Len(undo_stack) + 1].kind = "Brushwork"
          /\ undo_stack'[Len(undo_stack) + 1].layer = stroke[1].layer
          /\ undo_stack'[Len(undo_stack) + 2].kind = "SelectLayer"
          /\ undo_stack'[Len(undo_stack) + 2].layer = last'.layer
          /\ undo_stack'[Len(undo_stack) + 1].id
                < undo_stack'[Len(undo_stack) + 2].id
          /\ Cardinality(Positions("flush_updates", 0)') = 1
          /\ Cardinality(Positions("flush_updates", 1)') = 1
          /\ \A f0 \in Positions("flush_updates", 0)',
                f1 \in Positions("flush_updates", 1)',
                t1 \in Positions("touch", 1)',
                t0 \in Positions("touch", 0)' :
                   f0 < f1 /\ f1 < t1 /\ t1 < t0
          /\ Positions("touch", 1)' # {}
          /\ Positions("touch", 0)' # {}
      ]_vars

\* do(cmd) was called in mid-stroke and has recorded two commands.
C26_Witness ==
    /\ After("do")
    /\ last.pending0
    /\ stroke = <<>>
    /\ Len(undo_stack) = last.len0 + 2
    /\ undo_stack[Len(undo_stack) - 1].kind = "Brushwork"
    /\ undo_stack[Len(undo_stack)].kind = "SelectLayer"


\* C27: a save() that returns leaves unsaved_painting_time at 0, and a
\* save() that raises (unknown extension, GError, IOError, or an exception
\* it does not translate) leaves it as it was before the call.
C27_SavedOnSuccess ==
    [][Calling("save") =>
          IF last'.raised = ""
          THEN unsaved_painting_time' = 0
          ELSE unsaved_painting_time' = unsaved_painting_time]_vars

\* A save() of painting not yet saved failed inside save_ora, and the
\* painting still counts as unsaved.
C27_Witness ==
    /\ After("save")
    /\ last.settings = {"ora", "IOError"}
    /\ last.raised = "SaveLoadError"
    /\ last.pending0
    /\ unsaved_painting_time # 0


\* C28: the stored xres and yres are both unset or both at least 1;
\* get_resolution() is at least 1, is the default 72 when they are unset,
\* and after set_resolution(r), r not None, is max(1, int(r)).
C28_ResolutionInvariant ==
    /\ \/ xres = <<>> /\ yres = <<>>
       \/ xres # <<>> /\ yres # <<>> /\ xres[1] >= 1 /\ yres[1] >= 1
    /\ get_resolution(Doc) >= 1
    /\ xres = <<>> => get_resolution(Doc) = DEFAULT_RESOLUTION
    /\ After("get_resolution") => last.ret = <<get_resolution(Doc)>>
    /\ (After("set_resolution") /\ last.val # <<>>) =>
          get_resolution(Doc) = Max(1, int(last.val[1]))

\* get_resolution() returned 1 on a document given set_resolution(0.5).
C28_Witness ==
    /\ After("get_resolution")
    /\ last.ret = <<1>>
    /\ xres = <<1>>
    /\ yres = <<1>>


====
